---- MODULE Spec2Model ----
(***************************************************************************)
(* Model of the upload-with-retry logic (FirebaseClient.upload_with_retry  *)
(* and the legacy BanterUploader.upload_with_retry) and of the panel's     *)
(* availability cache (TIPPY_PT_upload_panel.get_firebase_status).         *)
(*                                                                         *)
(* Text is modelled as a tuple of its parts: an f-string "a{x}b" is the    *)
(* tuple <<"a", x, "b">>, so two texts are equal exactly when they are     *)
(* built from the same parts.  A URL whose trailing slash matters is a     *)
(* sequence of characters.  A component id "GLTF_<n>" is the number n.     *)
(***************************************************************************)
EXTENDS Integers, Sequences, FiniteSets, TLC

\* ------------------------------------------------------------------ bounds

\* Largest max_retries a call is made with (0 included: range(0) is empty).
MaxRetries == 3
\* Size of the space secrets.randbelow draws component ids from.
NumIds == 2
\* The clock of the availability cache runs from 0 to MaxTime seconds.
MaxTime == 15

\* ------------------------------------------------------------ environment

\* What one HTTP request can do: answer with a status code (and maybe a JSON
\* error body), time out, fail to connect, or raise anything else.
Http(code, body) == [kind |-> "http", code |-> code, body |-> body]

Timeout == [kind |-> "timeout", code |-> 0, body |-> "none"]

ConnectionFailed == [kind |-> "connerr", code |-> 0, body |-> "none"]

OtherException == [kind |-> "exc", code |-> 0, body |-> "none"]

\* No request was made (the helper returned before any I/O).
NoRequest == [kind |-> "norequest", code |-> 0, body |-> "none"]

\* body "none": no JSON body / no 'error' key; "error": {'error': {...}} with a
\* backend message.
Responses ==
    {Http(200, "none"), Http(403, "none"), Http(403, "error"),
     Timeout, ConnectionFailed, OtherException}

CodeText(code) ==
    CASE code = 200 -> "200"
      [] code = 401 -> "401"
      [] code = 403 -> "403"
      [] code = 404 -> "404"
      [] code = 413 -> "413"
      [] code = 500 -> "500"
      [] OTHER -> "???"

\* The text a backend puts in its JSON error body.
BackendMessage == "Permission denied."

\* ---------------------------------------------------------- FirebaseClient

\* database URLs as character sequences: "", "/", "d/".
DatabaseUrls == {<<>>, <<"/">>, <<"d", "/">>}

StorageBuckets == {"", "bkt"}

\* space ids as character sequences: "", "s".
SpaceIds == {<<>>, <<"s">>}

ApiKeys == {"", "key"}

\* __init__: one trailing slash of the database URL is removed.
StripTrailingSlash(url) ==
    IF url # <<>> /\ url[Len(url)] = "/" THEN SubSeq(url, 1, Len(url) - 1) ELSE url

FirebaseClientInit(api_key, storage_bucket, database_url, space_id) ==
    [api_key |-> api_key,
     storage_bucket |-> storage_bucket,
     database_url |-> StripTrailingSlash(database_url),
     space_id |-> space_id]

Payloads == {"glbA", "glbB"}

\* hashlib.sha256(glb_data).hexdigest(): the digest of the payload's bytes.
Sha256(glb_data) == <<"sha256(", glb_data, ")">>

StoragePath(glb_data) == <<"glbs", "/">> \o Sha256(glb_data) \o <<".glb">>

\* storage_path.replace('/', '%2F')
Quote(path) == [i \in DOMAIN path |-> IF path[i] = "/" THEN "%2F" ELSE path[i]]

\* The URL the payload is POSTed to.
UploadUrl(storage_bucket, glb_data) ==
    <<"https://firebasestorage.googleapis.com/v0/b/", storage_bucket, "/o/">>
        \o Quote(StoragePath(glb_data)) \o <<"?uploadType=media">>

DownloadUrl(storage_bucket, glb_data) ==
    <<"https://firebasestorage.googleapis.com/v0/b/", storage_bucket, "/o/">>
        \o Quote(StoragePath(glb_data)) \o <<"?alt=media">>

\* Mutant: the object is stored under the file's name.
upload_to_storage_ByName(client, glb_data, filename, resp) ==
    IF client.storage_bucket = ""
    THEN [success |-> FALSE, text |-> <<"Storage bucket not configured">>,
          storage_path |-> <<>>, target |-> <<>>, net |-> FALSE, resp |-> NoRequest]
    ELSE LET path == <<"glbs", "/">> \o filename
             base == <<"https://firebasestorage.googleapis.com/v0/b/",
                       client.storage_bucket, "/o/">> \o Quote(path)
         IN  IF resp.kind = "http" /\ resp.code = 200
             THEN [success |-> TRUE, text |-> base \o <<"?alt=media">>,
                   storage_path |-> path, target |-> base \o <<"?uploadType=media">>,
                   net |-> TRUE, resp |-> resp]
             ELSE [success |-> FALSE, text |-> <<"Storage upload failed">>,
                   storage_path |-> <<>>, target |-> base \o <<"?uploadType=media">>,
                   net |-> TRUE, resp |-> resp]

\* The (success, url_or_error, storage_path) that upload_to_storage returns
\* when its POST behaves as resp; net tells whether the POST was made, and
\* target is the URL it was made to.
upload_to_storage(client, glb_data, filename, resp) ==
    IF client.storage_bucket = ""
    THEN [success |-> FALSE, text |-> <<"Storage bucket not configured">>,
          storage_path |-> <<>>, target |-> <<>>, net |-> FALSE, resp |-> NoRequest]
    ELSE LET target == UploadUrl(client.storage_bucket, glb_data)
             fail(t) == [success |-> FALSE, text |-> t, storage_path |-> <<>>,
                         target |-> target, net |-> TRUE, resp |-> resp]
         IN  CASE resp.kind = "http" /\ resp.code = 200 ->
                    [success |-> TRUE,
                     text |-> DownloadUrl(client.storage_bucket, glb_data),
                     storage_path |-> StoragePath(glb_data),
                     target |-> target, net |-> TRUE, resp |-> resp]
               [] resp.kind = "http" /\ resp.code # 200 ->
                    IF resp.body = "error"
                    THEN fail(<<"Storage upload failed: ", BackendMessage>>)
                    ELSE fail(<<"Storage upload failed: HTTP ", CodeText(resp.code)>>)
               [] resp.kind = "timeout" -> fail(<<"Storage upload timeout">>)
               [] resp.kind = "connerr" -> fail(<<"Cannot connect to Firebase Storage">>)
               [] OTHER -> fail(<<"Storage upload error: ", "exception text">>)

\* Mutant: the component helper reports its failures with the storage
\* helper's texts.
create_component_StorageText(client, component_id, storage_url, resp) ==
    IF client.database_url = <<>> \/ client.space_id = <<>>
    THEN [success |-> FALSE, text |-> <<"Database URL or space ID not configured">>,
          net |-> FALSE, resp |-> NoRequest]
    ELSE IF resp.kind = "http" /\ resp.code = 200
    THEN [success |-> TRUE, text |-> <<"Component created successfully">>,
          net |-> TRUE, resp |-> resp]
    ELSE [success |-> FALSE,
          text |-> upload_to_storage([client EXCEPT !.storage_bucket = "bkt"],
                                     "glbA", <<"Cube", ".glb">>, resp).text,
          net |-> TRUE, resp |-> resp]

\* The (success, message) of create_component when its PUT behaves as resp.
\* (The caller discards the success message, which names the component id.)
create_component(client, component_id, storage_url, resp) ==
    IF client.database_url = <<>> \/ client.space_id = <<>>
    THEN [success |-> FALSE, text |-> <<"Database URL or space ID not configured">>,
          net |-> FALSE, resp |-> NoRequest]
    ELSE LET fail(t) == [success |-> FALSE, text |-> t, net |-> TRUE, resp |-> resp]
         IN  CASE resp.kind = "http" /\ resp.code = 200 ->
                    [success |-> TRUE,
                     text |-> <<"Component created successfully">>,
                     net |-> TRUE, resp |-> resp]
               [] resp.kind = "http" /\ resp.code # 200 ->
                    IF resp.body = "error"
                    THEN fail(<<"Failed to create component: ", BackendMessage>>)
                    ELSE fail(<<"Failed to create component: HTTP ", CodeText(resp.code)>>)
               [] OTHER -> fail(<<"Component creation error: ", "exception text">>)

\* The (success, message) of create_entity when its PUT behaves as resp.
create_entity(client, mesh_name, component_id, resp) ==
    IF client.database_url = <<>> \/ client.space_id = <<>>
    THEN [success |-> FALSE, text |-> <<"Database URL or space ID not configured">>,
          net |-> FALSE, resp |-> NoRequest]
    ELSE LET fail(t) == [success |-> FALSE, text |-> t, net |-> TRUE, resp |-> resp]
         IN  CASE resp.kind = "http" /\ resp.code = 200 ->
                    [success |-> TRUE,
                     text |-> <<"Entity '", mesh_name, "' created successfully">>,
                     net |-> TRUE, resp |-> resp]
               [] resp.kind = "http" /\ resp.code # 200 ->
                    IF resp.body = "error"
                    THEN fail(<<"Failed to create entity: ", BackendMessage>>)
                    ELSE fail(<<"Failed to create entity: HTTP ", CodeText(resp.code)>>)
               [] OTHER -> fail(<<"Entity creation error: ", "exception text">>)

\* The (success, message) of test_connection when its GET behaves as resp.
ProbeResponses ==
    {Http(200, "none"), Http(401, "none"), Http(404, "none"), Http(500, "none"),
     Timeout, ConnectionFailed, OtherException}

\* Mutant: any status below 500 counts as a successful connection.
test_connection_Below500(c, resp) ==
    IF c.database_url = <<>> \/ c.api_key = ""
    THEN [success |-> FALSE, text |-> <<"Firebase configuration incomplete">>,
          net |-> FALSE]
    ELSE IF resp.kind = "http" /\ resp.code < 500
    THEN [success |-> TRUE, text |-> <<"Firebase connection successful">>,
          net |-> TRUE]
    ELSE [success |-> FALSE, text |-> <<"Firebase connection failed">>,
          net |-> TRUE]

test_connection(c, resp) ==
    IF c.database_url = <<>> \/ c.api_key = ""
    THEN [success |-> FALSE, text |-> <<"Firebase configuration incomplete">>,
          net |-> FALSE]
    ELSE CASE resp.kind = "http" /\ resp.code = 200 ->
                [success |-> TRUE, text |-> <<"Firebase connection successful">>,
                 net |-> TRUE]
           [] resp.kind = "http" /\ resp.code = 401 ->
                [success |-> FALSE,
                 text |-> <<"Firebase authentication failed - check API key">>,
                 net |-> TRUE]
           [] resp.kind = "http" /\ resp.code \notin {200, 401} ->
                [success |-> FALSE,
                 text |-> <<"Firebase connection failed: HTTP ", CodeText(resp.code)>>,
                 net |-> TRUE]
           [] resp.kind = "timeout" ->
                [success |-> FALSE, text |-> <<"Firebase connection timeout">>,
                 net |-> TRUE]
           [] resp.kind = "connerr" ->
                [success |-> FALSE,
                 text |-> <<"Cannot connect to Firebase - check database URL">>,
                 net |-> TRUE]
           [] OTHER ->
                [success |-> FALSE,
                 text |-> <<"Firebase connection error: ", "exception text">>,
                 net |-> TRUE]

\* ------------------------------------------------------ availability cache

\* TIPPY_PT_upload_panel._cache_duration, in seconds.
CacheDuration == 10

\* project ids as character sequences: "p".
ProjectIds == {<<"p">>}

\* cache_key = f"{prefs.firebase_project_id}_{prefs.space_id}"
CacheKey(prefs) == prefs.firebase_project_id \o <<"_">> \o prefs.space_id

\* Mutant: an entry exactly _cache_duration old still counts as fresh.
IsFresh_Inclusive(current_time, cached_time) ==
    current_time - cached_time <= CacheDuration

\* `current_time - cached_time < cls._cache_duration`
IsFresh(current_time, cached_time) == current_time - cached_time < CacheDuration

\* `if not prefs.firebase_database_url or not prefs.firebase_api_key`
PrefsIncomplete(prefs) ==
    prefs.firebase_database_url = <<>> \/ prefs.firebase_api_key = ""

\* Mutant: del forgotten, the entry stays.
Delete_Noop(c, key) == c

\* cache[key] = value, and del cache[key]
Store(c, key, value) ==
    [k \in DOMAIN c \cup {key} |-> IF k = key THEN value ELSE c[k]]

Delete(c, key) == [k \in DOMAIN c \ {key} |-> c[k]]

\* Mutant: only a successful probe is cached.
get_firebase_status_NoNegativeCache(c, prefs, current_time, resp) ==
    LET key == CacheKey(prefs)
    IN  IF key \in DOMAIN c /\ IsFresh(current_time, c[key][2])
        THEN [ret |-> c[key][1], cache |-> c, probes |-> 0]
        ELSE IF PrefsIncomplete(prefs)
        THEN [ret |-> FALSE, cache |-> Store(c, key, <<FALSE, current_time>>),
              probes |-> 0]
        ELSE LET cl == FirebaseClientInit(prefs.firebase_api_key, "",
                                          prefs.firebase_database_url, prefs.space_id)
                 r == test_connection(cl, resp)
             IN  [ret |-> r.success,
                  cache |-> IF r.success
                            THEN Store(c, key, <<TRUE, current_time>>)
                            ELSE c,
                  probes |-> IF r.net THEN 1 ELSE 0]

\* get_firebase_status(prefs) at clock reading current_time, with the probe's
\* GET behaving as resp: what it returns, the cache it leaves, and the number
\* of GETs it made.
get_firebase_status(c, prefs, current_time, resp) ==
    LET key == CacheKey(prefs)
    IN  IF key \in DOMAIN c /\ IsFresh(current_time, c[key][2])
        THEN [ret |-> c[key][1], cache |-> c, probes |-> 0]
        ELSE IF PrefsIncomplete(prefs)
        THEN [ret |-> FALSE, cache |-> Store(c, key, <<FALSE, current_time>>),
              probes |-> 0]
        ELSE LET cl == FirebaseClientInit(prefs.firebase_api_key, "",
                                          prefs.firebase_database_url, prefs.space_id)
                 r == test_connection(cl, resp)
             IN  [ret |-> r.success,
                  cache |-> Store(c, key, <<r.success, current_time>>),
                  probes |-> IF r.net THEN 1 ELSE 0]

\* -------------------------------------------------- legacy BanterUploader

BanterResponses ==
    {Http(200, "json"), Http(200, "none"), Http(413, "none"), Http(500, "none"),
     Timeout, ConnectionFailed, OtherException}

\* The server_url argument: None, or a URL.
ServerUrls == {"None", "https://server"}

\* upload_glb when its POST behaves as resp: the dict it returns, or the
\* exception it raises (raised = "" when it returns). With server_url None it
\* reads config.DEFAULT_SERVER_URL, which config.py does not define, before
\* its try block and before any request.
upload_glb(glb_data, url, resp) ==
    LET raise(cls, t) == [raised |-> cls, text |-> t, net |-> TRUE, resp |-> resp]
    IN  CASE url = "None" ->
               [raised |-> "AttributeError",
                text |-> <<"module has no attribute 'DEFAULT_SERVER_URL'">>,
                net |-> FALSE, resp |-> NoRequest]
          [] url # "None" /\ resp.kind = "http" /\ resp.code < 400 /\ resp.body = "json" ->
               [raised |-> "", text |-> <<"local_hash=">> \o Sha256(glb_data),
                net |-> TRUE, resp |-> resp]
          [] resp.kind = "http" /\ resp.code < 400 /\ resp.body # "json" ->
               raise("ValueError", <<"Invalid response from server">>)
          [] resp.kind = "http" /\ resp.code = 413 ->
               raise("ValueError", <<"File too large - maximum size is 40MB">>)
          [] resp.kind = "http" /\ resp.code >= 400 /\ resp.code # 413 ->
               raise("ValueError", <<"Server error: ", CodeText(resp.code)>>)
          [] resp.kind = "connerr" ->
               raise("ConnectionError", <<"Cannot connect to server">>)
          [] resp.kind = "timeout" ->
               raise("TimeoutError", <<"Upload timed out - file may be too large">>)
          [] OTHER -> raise("Exception", <<"Upload failed: ", "exception text">>)

\* ------------------------------------------------------------------ state

VARIABLES
    impl,          \* which upload_with_retry is running: "firebase" | "banter"
    pc,            \* "idle" | "loop" | "component" | "entity" | "done"
    client,        \* the FirebaseClient the call runs on
    glb_data,      \* the payload
    mesh_name,     \* the name argument
    max_retries,   \* the max_retries argument
    attempt,       \* the loop variable of `for attempt in range(max_retries)`
    component_id,  \* component id minted by the current iteration
    storage_url,   \* url returned by the successful storage upload
    last_error,    \* BanterUploader: last ConnectionError / TimeoutError
    server_url,    \* BanterUploader: the server_url argument
    trace,         \* helper calls, loop-body exceptions and sleeps, in order
    result,        \* what the call returned or raised
    prefs,         \* the add-on preferences the panel reads
    cache,         \* TIPPY_PT_upload_panel._firebase_status_cache
    now,           \* time.time(), in seconds
    probed,        \* per cache key: the last get_firebase_status that made a GET
    last,          \* what the last operation on the cache did
    network,       \* the behaviours the requests of this run can show
    finished,      \* the upload_with_retry calls that returned Success, in order
    operator,      \* the export operator's execute(): what it read and did
    probe,         \* the last availability probe: its input and what it reported
    callers,       \* concurrent upload_with_retry calls: each one's position
    backend,       \* what the storage bucket and the database hold
    context,       \* the scene's upload history, last upload and batch results,
                   \* and the window manager's clipboard
    host           \* the host's selection, active object and files, and the
                   \* last export_selection call

uploadVars ==
    <<impl, pc, client, glb_data, mesh_name, max_retries, attempt, component_id,
      storage_url, last_error, server_url, trace, result>>

cacheVars == <<prefs, cache, now, probed, last>>

\* What no upload_with_retry step and no cache operation touches.
\* What only the concurrent calls, the scene and the exporter touch.
laterVars == <<callers, backend, context, host>>

otherVars == <<network, finished, operator, probe, laterVars>>

vars == <<uploadVars, cacheVars, otherVars>>

\* A mesh name is a str, or an object whose __format__ raises: formatting
\* f"{mesh_name}.glb" is the one statement of the loop body that can raise
\* outside the helpers' own handlers.
MeshNames == {"Cube", "Unformattable"}

Formattable(name) == name # "Unformattable"

NoResult == [kind |-> "none"]

NoError == [raised |-> "", text |-> <<>>, resp |-> NoRequest]

Returned(value) == [kind |-> "return", value |-> value]

Raised(cls, text) == [kind |-> "raise", exc |-> cls, text |-> text]

Success(url, id, name) ==
    Returned([success |-> TRUE, storage_url |-> url, component_id |-> id,
              mesh_name |-> name])

\* Mutant: every Failure carries the same generic message.
Failure_Generic(text) == Returned([success |-> FALSE, error |-> <<"Upload failed">>])

Failure(text) == Returned([success |-> FALSE, error |-> text])

\* One entry of the trace: a helper call with what it returned ...
Call(op, r) ==
    [op |-> op, ok |-> r.success, text |-> r.text, net |-> r.net, resp |-> r.resp,
     target |-> IF "target" \in DOMAIN r THEN r.target ELSE <<>>, delay |-> 0]

\* ... or an exception raised in the loop body outside the helpers ...
Exc(text) ==
    [op |-> "raise", ok |-> FALSE, text |-> text, net |-> FALSE, resp |-> NoRequest,
     target |-> <<>>, delay |-> 0]

\* ... or a time.sleep(delay).
Sleep(delay) ==
    [op |-> "sleep", ok |-> TRUE, text |-> <<>>, net |-> FALSE, resp |-> NoRequest,
     target |-> <<>>, delay |-> delay]

\* Mutant: the delay is capped at 30 seconds.
Backoff_Capped(n) == IF 2 ^ n > 30 THEN 30 ELSE 2 ^ n

\* Mutant: the exponent is the 1-based number of the failed attempt.
Backoff_OneBased(n) == 2 ^ (n + 1)

\* time.sleep(2 ** attempt)
Backoff(n) == 2 ^ n

\* Mutant: gives up one iteration early.
MayRetry_Early(n, retries) == n < retries - 2

\* Mutant: off by one, so the last failed iteration backs off too.
MayRetry_OffByOne(n, retries) == n < retries

\* `attempt < max_retries - 1`: another iteration follows.
MayRetry(n, retries) == n < retries - 1

UploadInit ==
    /\ impl = "none"
    /\ pc = "idle"
    /\ client = FirebaseClientInit("", "", <<>>, <<>>)
    /\ glb_data = "glbA"
    /\ mesh_name = "Cube"
    /\ max_retries = 0
    /\ attempt = 0
    /\ component_id = 0
    /\ storage_url = <<>>
    /\ last_error = NoError
    /\ server_url = "None"
    /\ trace = <<>>
    /\ result = NoResult

\* ------------------------------------- FirebaseClient.upload_with_retry

\* A caller constructs a client and invokes upload_with_retry.
FbCall ==
    /\ pc = "idle"
    /\ \E k \in ApiKeys, b \in StorageBuckets, u \in DatabaseUrls, s \in SpaceIds :
           client' = FirebaseClientInit(k, b, u, s)
    /\ glb_data' \in Payloads
    /\ mesh_name' \in MeshNames
    /\ max_retries' \in 0..MaxRetries
    /\ impl' = "firebase"
    /\ pc' = "loop"
    /\ attempt' = 0
    /\ trace' = <<>>
    /\ UNCHANGED <<component_id, storage_url, last_error, server_url, result>>
    /\ UNCHANGED <<cacheVars, otherVars>>

\* Mutant: the loop's handler re-raises on the last iteration.
FbHandleException_Reraise(text) ==
    IF MayRetry(attempt, max_retries)
    THEN /\ trace' = trace \o <<Exc(text), Sleep(Backoff(attempt))>>
         /\ attempt' = attempt + 1
         /\ UNCHANGED <<pc, result>>
    ELSE /\ trace' = Append(trace, Exc(text))
         /\ result' = Raised("Exception", text)
         /\ pc' = "done"
         /\ UNCHANGED attempt

\* The loop's `except Exception as e` clause: back off and go round again, or
\* return the Failure of the last iteration.
FbHandleException(text) ==
    IF MayRetry(attempt, max_retries)
    THEN /\ trace' = trace \o <<Exc(text), Sleep(Backoff(attempt))>>
         /\ attempt' = attempt + 1
         /\ UNCHANGED <<pc, result>>
    ELSE /\ trace' = Append(trace, Exc(text))
         /\ result' = Failure(<<"Upload failed: ">> \o text)
         /\ pc' = "done"
         /\ UNCHANGED attempt

\* One iteration whose f"{mesh_name}.glb" raises before upload_to_storage is
\* entered.
FbFormatRaises ==
    /\ impl = "firebase" /\ pc = "loop" /\ attempt < max_retries
    /\ ~Formattable(mesh_name)
    /\ component_id' \in 1..NumIds
    /\ FbHandleException(<<"cannot format mesh_name">>)
    /\ UNCHANGED <<impl, client, glb_data, mesh_name, max_retries, storage_url,
                   last_error, server_url>>
    /\ UNCHANGED <<cacheVars, otherVars>>

\* One iteration up to and including step 1: mint a component id, upload to
\* storage, and on failure back off and retry or return the Failure.
FbUploadToStorage ==
    /\ impl = "firebase" /\ pc = "loop" /\ attempt < max_retries
    /\ Formattable(mesh_name)
    /\ component_id' \in 1..NumIds
    /\ \E resp \in Responses \cap network :
         LET r == upload_to_storage(client, glb_data, <<mesh_name, ".glb">>, resp)
         IN  IF ~r.success
             THEN IF MayRetry(attempt, max_retries)
                  THEN /\ trace' = trace \o <<Call("storage", r), Sleep(Backoff(attempt))>>
                       /\ attempt' = attempt + 1
                       /\ UNCHANGED <<pc, result, storage_url>>
                  ELSE /\ trace' = Append(trace, Call("storage", r))
                       /\ result' = Failure(r.text)
                       /\ pc' = "done"
                       /\ UNCHANGED <<attempt, storage_url>>
             ELSE /\ trace' = Append(trace, Call("storage", r))
                  /\ storage_url' = r.text
                  /\ pc' = "component"
                  /\ UNCHANGED <<attempt, result>>
    /\ UNCHANGED <<impl, client, glb_data, mesh_name, max_retries, last_error, server_url>>
    /\ UNCHANGED <<cacheVars, otherVars>>

\* Mutant: a failed component write is retried from step 1 like a failed upload.
FbCreateComponent_Retry ==
    /\ impl = "firebase" /\ pc = "component"
    /\ \E resp \in Responses \cap network :
         LET r == create_component(client, component_id, storage_url, resp)
         IN  IF ~r.success
             THEN IF MayRetry(attempt, max_retries)
                  THEN /\ trace' = trace \o <<Call("component", r), Sleep(Backoff(attempt))>>
                       /\ attempt' = attempt + 1
                       /\ pc' = "loop"
                       /\ UNCHANGED result
                  ELSE /\ trace' = Append(trace, Call("component", r))
                       /\ result' = Failure(r.text)
                       /\ pc' = "done"
                       /\ UNCHANGED attempt
             ELSE /\ trace' = Append(trace, Call("component", r))
                  /\ pc' = "entity"
                  /\ UNCHANGED <<attempt, result>>
    /\ UNCHANGED <<impl, client, glb_data, mesh_name, max_retries,
                   component_id, storage_url, last_error, server_url>>
    /\ UNCHANGED <<cacheVars, otherVars>>

\* Mutant: the result of create_component is not looked at.
FbCreateComponent_Unchecked ==
    /\ impl = "firebase" /\ pc = "component"
    /\ \E resp \in Responses \cap network :
         LET r == create_component(client, component_id, storage_url, resp)
         IN  /\ trace' = Append(trace, Call("component", r))
             /\ pc' = "entity"
             /\ UNCHANGED result
    /\ UNCHANGED <<impl, client, glb_data, mesh_name, max_retries, attempt,
                   component_id, storage_url, last_error, server_url>>
    /\ UNCHANGED <<cacheVars, otherVars>>

\* Step 2: create the component; a failure ends the call.
FbCreateComponent ==
    /\ impl = "firebase" /\ pc = "component"
    /\ \E resp \in Responses \cap network :
         LET r == create_component(client, component_id, storage_url, resp)
         IN  /\ trace' = Append(trace, Call("component", r))
             /\ IF ~r.success
                THEN /\ result' = Failure(r.text)
                     /\ pc' = "done"
                ELSE /\ pc' = "entity"
                     /\ UNCHANGED result
    /\ UNCHANGED <<impl, client, glb_data, mesh_name, max_retries, attempt,
                   component_id, storage_url, last_error, server_url>>
    /\ UNCHANGED <<cacheVars, otherVars>>

\* Mutant: the test of create_entity's result is inverted.
FbCreateEntity_Inverted ==
    /\ impl = "firebase" /\ pc = "entity"
    /\ \E resp \in Responses \cap network :
         LET r == create_entity(client, mesh_name, component_id, resp)
         IN  /\ trace' = Append(trace, Call("entity", r))
             /\ result' = IF r.success
                          THEN Failure(r.text)
                          ELSE Success(storage_url, component_id, mesh_name)
             /\ pc' = "done"
    /\ UNCHANGED <<impl, client, glb_data, mesh_name, max_retries, attempt,
                   component_id, storage_url, last_error, server_url>>
    /\ UNCHANGED <<cacheVars, otherVars>>

\* Mutant: a failed entity write sends the call back to step 1.
FbCreateEntity_Retry ==
    /\ impl = "firebase" /\ pc = "entity"
    /\ \E resp \in Responses \cap network :
         LET r == create_entity(client, mesh_name, component_id, resp)
         IN  /\ trace' = Append(trace, Call("entity", r))
             /\ IF r.success
                THEN /\ result' = Success(storage_url, component_id, mesh_name)
                     /\ pc' = "done"
                     /\ UNCHANGED attempt
                ELSE IF MayRetry(attempt, max_retries)
                THEN /\ attempt' = attempt + 1
                     /\ pc' = "loop"
                     /\ UNCHANGED result
                ELSE /\ result' = Failure(r.text)
                     /\ pc' = "done"
                     /\ UNCHANGED attempt
    /\ UNCHANGED <<impl, client, glb_data, mesh_name, max_retries,
                   component_id, storage_url, last_error, server_url>>
    /\ UNCHANGED <<cacheVars, otherVars>>

\* Step 3: create the entity, and return Success or the Failure.
FbCreateEntity ==
    /\ impl = "firebase" /\ pc = "entity"
    /\ \E resp \in Responses \cap network :
         LET r == create_entity(client, mesh_name, component_id, resp)
         IN  /\ trace' = Append(trace, Call("entity", r))
             /\ result' = IF ~r.success
                          THEN Failure(r.text)
                          ELSE Success(storage_url, component_id, mesh_name)
             /\ pc' = "done"
    /\ UNCHANGED <<impl, client, glb_data, mesh_name, max_retries, attempt,
                   component_id, storage_url, last_error, server_url>>
    /\ UNCHANGED <<cacheVars, otherVars>>

\* The loop ran out without returning (only when range(max_retries) is empty).
FbExhausted ==
    /\ impl = "firebase" /\ pc = "loop" /\ attempt >= max_retries
    /\ result' = Failure(<<"Maximum retries exceeded">>)
    /\ pc' = "done"
    /\ UNCHANGED <<impl, client, glb_data, mesh_name, max_retries, attempt,
                   component_id, storage_url, last_error, server_url, trace>>
    /\ UNCHANGED <<cacheVars, otherVars>>

\* ------------------------------------- BanterUploader.upload_with_retry

BtCall ==
    /\ pc = "idle"
    /\ glb_data' \in Payloads
    /\ server_url' \in ServerUrls
    /\ max_retries' \in 0..MaxRetries
    /\ impl' = "banter"
    /\ pc' = "loop"
    /\ attempt' = 0
    /\ trace' = <<>>
    /\ last_error' = NoError
    /\ UNCHANGED <<client, mesh_name, component_id, storage_url, result>>
    /\ UNCHANGED <<cacheVars, otherVars>>

\* What the trace keeps of one upload_glb call.
GlbCall(r) ==
    [op |-> "upload_glb", ok |-> r.raised = "", text |-> r.text, net |-> r.net,
     resp |-> r.resp, target |-> <<>>, delay |-> 0]

\* Mutant: every exception of upload_glb is retried like a transport failure.
BtUploadGlb_RetryAll ==
    /\ impl = "banter" /\ pc = "loop" /\ attempt < max_retries
    /\ \E resp \in BanterResponses \cap network :
         LET r == upload_glb(glb_data, server_url, resp)
             call == GlbCall(r)
         IN  IF r.raised = ""
             THEN /\ trace' = Append(trace, call)
                  /\ result' = Returned(r.text)
                  /\ pc' = "done"
                  /\ UNCHANGED <<attempt, last_error>>
             ELSE /\ last_error' = [raised |-> r.raised, text |-> r.text, resp |-> r.resp]
                  /\ trace' = IF MayRetry(attempt, max_retries)
                              THEN trace \o <<call, Sleep(Backoff(attempt))>>
                              ELSE Append(trace, call)
                  /\ attempt' = attempt + 1
                  /\ UNCHANGED <<pc, result>>
    /\ UNCHANGED <<impl, client, glb_data, mesh_name, max_retries, component_id,
                   storage_url, server_url>>
    /\ UNCHANGED <<cacheVars, otherVars>>

\* One iteration: return what upload_glb returns; on ConnectionError or
\* TimeoutError remember it, back off unless this was the last iteration, and
\* continue; re-raise anything else.
BtUploadGlb ==
    /\ impl = "banter" /\ pc = "loop" /\ attempt < max_retries
    /\ \E resp \in BanterResponses \cap network :
         LET r == upload_glb(glb_data, server_url, resp)
             call == GlbCall(r)
         IN  CASE r.raised = "" ->
                    /\ trace' = Append(trace, call)
                    /\ result' = Returned(r.text)
                    /\ pc' = "done"
                    /\ UNCHANGED <<attempt, last_error>>
               [] r.raised \in {"ConnectionError", "TimeoutError"} ->
                    /\ last_error' = [raised |-> r.raised, text |-> r.text, resp |-> r.resp]
                    /\ trace' = IF MayRetry(attempt, max_retries)
                                THEN trace \o <<call, Sleep(Backoff(attempt))>>
                                ELSE Append(trace, call)
                    /\ attempt' = attempt + 1
                    /\ UNCHANGED <<pc, result>>
               [] OTHER ->
                    /\ trace' = Append(trace, call)
                    /\ result' = Raised(r.raised, r.text)
                    /\ pc' = "done"
                    /\ UNCHANGED <<attempt, last_error>>
    /\ UNCHANGED <<impl, client, glb_data, mesh_name, max_retries, component_id,
                   storage_url, server_url>>
    /\ UNCHANGED <<cacheVars, otherVars>>

\* After the loop: raise last_error or Exception("Upload failed after all retries").
BtExhausted ==
    /\ impl = "banter" /\ pc = "loop" /\ attempt >= max_retries
    /\ result' = IF last_error.raised # ""
                 THEN Raised(last_error.raised, last_error.text)
                 ELSE Raised("Exception", <<"Upload failed after all retries">>)
    /\ pc' = "done"
    /\ UNCHANGED <<impl, client, glb_data, mesh_name, max_retries, attempt,
                   component_id, storage_url, last_error, server_url, trace>>
    /\ UNCHANGED <<cacheVars, otherVars>>

\* ------------------------------------------- availability cache: operations

AllPrefs ==
    [firebase_project_id : ProjectIds, space_id : SpaceIds,
     firebase_api_key : ApiKeys, firebase_database_url : DatabaseUrls]

\* Seconds the clock can advance in one step.
TickSteps == {5}

\* Seconds a probe can take: requests.get(test_url, timeout=5).
ProbeSeconds == {0, 5}

\* What `last` holds after an operation that is not a get_firebase_status.
Other(op) ==
    [op |-> op, key |-> <<>>, at |-> 0, had |-> FALSE, age |-> 0, probes |-> 0,
     ret |-> FALSE, sinceProbe |-> -1, prevOk |-> FALSE, invalidated |-> FALSE,
     afterRefresh |-> FALSE]

CacheInit ==
    /\ prefs = [firebase_project_id |-> <<"p">>, space_id |-> <<>>,
                firebase_api_key |-> "", firebase_database_url |-> <<>>]
    /\ cache = <<>>
    /\ now = 0
    /\ probed = <<>>
    /\ last = Other("none")

\* The user edits one field of the add-on preferences.
SetPrefs ==
    /\ \E p \in AllPrefs :
         /\ p # prefs
         /\ Cardinality({f \in DOMAIN p : p[f] # prefs[f]}) = 1
         /\ prefs' = p
    /\ last' = Other("prefs")
    /\ UNCHANGED <<cache, now, probed>>
    /\ UNCHANGED <<uploadVars, otherVars>>

\* Time passes.
Tick ==
    /\ \E d \in TickSteps :
         /\ now + d <= MaxTime
         /\ now' = now + d
    /\ last' = Other("tick")
    /\ UNCHANGED <<prefs, cache, probed>>
    /\ UNCHANGED <<uploadVars, otherVars>>

\* The panel is drawn: draw() calls get_firebase_status(prefs), which reads the
\* clock once, on entry; a probe lets time pass before the call returns.
GetStatus ==
    /\ \E resp \in ProbeResponses :
         LET key == CacheKey(prefs)
             r == get_firebase_status(cache, prefs, now, resp)
             had == key \in DOMAIN cache
             seen == key \in DOMAIN probed
         IN  /\ cache' = r.cache
             /\ probed' = IF r.probes > 0
                          THEN Store(probed, key,
                                     [at |-> now, ok |-> r.ret, invalidated |-> FALSE,
                                      prefs |-> prefs])
                          ELSE probed
             /\ last' = [op |-> "get", key |-> key, at |-> now, had |-> had,
                         age |-> IF had THEN now - cache[key][2] ELSE 0,
                         probes |-> r.probes, ret |-> r.ret,
                         sinceProbe |-> IF seen THEN now - probed[key].at ELSE -1,
                         prevOk |-> seen /\ probed[key].ok,
                         invalidated |-> seen /\ probed[key].invalidated,
                         afterRefresh |-> last.op = "refresh"]
             /\ \E d \in IF r.probes > 0 THEN ProbeSeconds ELSE {0} :
                  /\ now + d <= MaxTime
                  /\ now' = now + d
    /\ UNCHANGED prefs
    /\ UNCHANGED <<uploadVars, otherVars>>

\* TIPPY_OT_refresh_firebase_status.execute: delete the entry of the current
\* configuration's key.
Refresh ==
    /\ LET key == CacheKey(prefs)
       IN  /\ cache' = IF key \in DOMAIN cache THEN Delete(cache, key) ELSE cache
           /\ probed' = IF key \in DOMAIN probed
                        THEN Store(probed, key, [probed[key] EXCEPT !.invalidated = TRUE])
                        ELSE probed
    /\ last' = Other("refresh")
    /\ UNCHANGED <<prefs, now>>
    /\ UNCHANGED <<uploadVars, otherVars>>

CacheNext ==
    \/ SetPrefs
    \/ Tick
    \/ GetStatus
    \/ Refresh

UploadNext ==
    \/ FbCall
    \/ FbFormatRaises
    \/ FbUploadToStorage
    \/ FbCreateComponent
    \/ FbCreateEntity
    \/ FbExhausted
    \/ BtCall
    \/ BtUploadGlb
    \/ BtExhausted

\* ---------------------------------------------------------- specifications

\* Every behaviour a request can show.
EveryBehaviour == Responses \cup BanterResponses

NoOperator == [kind |-> "none"]

NoProbe == [fn |-> "none"]

\* A bucket and a database with nothing in them.
EmptyBackend == [stored |-> {}, components |-> <<>>, entities |-> <<>>]

\* A new scene: no history, no last upload, no batch results; nothing on the
\* clipboard. The clipboard's text is held as its lines.
EmptyContext ==
    [tippy_upload_history |-> <<>>, tippy_last_upload_hash |-> [bucket |-> "", payload |-> 0],
     tippy_batch_results |-> <<>>, clipboard |-> <<>>]

\* No object is active.
None == "None"

\* export_selection has not been called.
NoExport == [objects |-> "none"]

\* A host with nothing selected, no active object and no files written.
IdleHost == [selected |-> {}, active |-> None, files |-> {}, call |-> NoExport]

\* Nothing but the subject of the specification has run.
OtherInit(behaviours) ==
    /\ network = behaviours
    /\ finished = <<>>
    /\ operator = NoOperator
    /\ probe = NoProbe
    /\ callers = <<>>
    /\ backend = EmptyBackend
    /\ context = EmptyContext
    /\ host = IdleHost

Init == UploadInit /\ CacheInit /\ OtherInit(EveryBehaviour)

\* One upload_with_retry call of either client, from invocation to return.
Spec == Init /\ [][UploadNext]_vars

\* The panel's availability cache under redraws, refreshes, preference edits
\* and the passing of time.
SpecCache == Init /\ [][CacheNext]_vars

\* ------------------------------------ calls the export operators make

\* preferences.max_retries: IntProperty(default=3, min=1, max=10)
PrefMinRetries == 1

PrefMaxRetries == 10

\* Names of scene objects: strings.
ObjectNames == {"Cube", "Sphere"}

\* How many calls one session makes.
MaxCalls == 2

\* A backend that answers 200, unless the request times out.
FlakyNetwork == {Http(200, "none"), Timeout}

\* An export operator, having found the configuration complete, constructs a
\* client from the preferences and calls upload_with_retry with the object's
\* name and max_retries = prefs.max_retries.
FbCallFromPrefs ==
    /\ pc = "idle"
    /\ \E b \in StorageBuckets \ {""}, u \in DatabaseUrls \ {<<>>},
          s \in SpaceIds \ {<<>>} :
           client' = FirebaseClientInit("key", b, u, s)
    /\ glb_data' \in Payloads
    /\ mesh_name' \in ObjectNames
    /\ max_retries' \in PrefMinRetries..PrefMaxRetries
    /\ impl' = "firebase"
    /\ pc' = "loop"
    /\ attempt' = 0
    /\ trace' = <<>>
    /\ UNCHANGED <<component_id, storage_url, last_error, server_url, result>>
    /\ UNCHANGED <<cacheVars, otherVars>>

\* What is kept of a call that returned Success: its payload, name and
\* bucket, the upload that succeeded, and what the Success carried.
Summary ==
    [glb_data |-> glb_data,
     mesh_name |-> mesh_name,
     storage_bucket |-> client.storage_bucket,
     stored |-> SelectSeq(trace, LAMBDA e : e.op = "storage" /\ e.ok),
     success |-> result.value.success,
     component_id |-> result.value.component_id,
     storage_url |-> result.value.storage_url]

\* The call has returned to the operator, which records a Success and goes on
\* (to its next item, or to its next execution).
FbNextCall ==
    /\ impl = "firebase" /\ pc = "done"
    /\ Len(finished) + 1 < MaxCalls
    /\ finished' = IF result.value.success THEN Append(finished, Summary) ELSE finished
    /\ impl' = "none"
    /\ pc' = "idle"
    /\ client' = FirebaseClientInit("", "", <<>>, <<>>)
    /\ glb_data' = "glbA"
    /\ mesh_name' = "Cube"
    /\ max_retries' = 0
    /\ attempt' = 0
    /\ component_id' = 0
    /\ storage_url' = <<>>
    /\ trace' = <<>>
    /\ result' = NoResult
    /\ UNCHANGED <<last_error, server_url>>
    /\ UNCHANGED <<cacheVars, network, operator, probe, laterVars>>

PrefsNext ==
    \/ FbCallFromPrefs
    \/ FbUploadToStorage
    \/ FbCreateComponent
    \/ FbCreateEntity

RepeatNext ==
    \/ FbCallFromPrefs
    \/ FbUploadToStorage
    \/ FbCreateComponent
    \/ FbCreateEntity
    \/ FbNextCall

\* A backend that answers 200 or 403, unless the request times out.
UnreliableNetwork == {Http(200, "none"), Http(403, "none"), Timeout}

InitFlaky == UploadInit /\ CacheInit /\ OtherInit(FlakyNetwork)

InitUnreliable == UploadInit /\ CacheInit /\ OtherInit(UnreliableNetwork)

\* One call made by an export operator, with max_retries anywhere in the
\* preference's range, against a backend that answers 200 or 403 or lets the
\* request time out.
SpecPrefs == InitUnreliable /\ [][PrefsNext]_vars

\* The same, given that each step-1, step-2 and step-3 request returns.
SpecPrefsFair ==
    /\ SpecPrefs
    /\ WF_vars(FbUploadToStorage)
    /\ WF_vars(FbCreateComponent)
    /\ WF_vars(FbCreateEntity)

\* A session of up to MaxCalls such calls, one after the other.
SpecRepeat == InitFlaky /\ [][RepeatNext]_vars

\* ------------------------------------------------- the export operators

\* config.MAX_FILE_SIZE_MB
MAX_FILE_SIZE_MB == 40

Megabyte == 1024 * 1024

\* len(glb_data) of an exported payload: tiny, exactly 40 MB, one byte more.
PayloadLengths == {1, MAX_FILE_SIZE_MB * Megabyte, MAX_FILE_SIZE_MB * Megabyte + 1}

\* Mutant: a payload of exactly MAX_FILE_SIZE_MB is rejected too.
TooLarge_Inclusive(length) == length >= MAX_FILE_SIZE_MB * Megabyte

\* size_mb = len(glb_data) / (1024 * 1024); size_mb > config.MAX_FILE_SIZE_MB
\* (the division by a power of two is exact).
TooLarge(length) == length > MAX_FILE_SIZE_MB * Megabyte

\* What upload_with_retry does when an operator calls it.
UploadOutcomes == {"success", "failure", "raise"}

\* How many export items one batch has at most.
MaxItems == 2

\* An export item: whether it passes validation, whether export_selection
\* returns (rather than raises), the length of the exported payload, and what
\* upload_with_retry does with it if it is called.
Items ==
    {[valid |-> FALSE, exported |-> FALSE, length |-> 0, upload |-> "none"],
     [valid |-> TRUE, exported |-> FALSE, length |-> 0, upload |-> "none"]}
    \cup [valid : {TRUE}, exported : {TRUE}, length : PayloadLengths,
          upload : UploadOutcomes]

ItemLists == UNION {[1..n -> Items] : n \in 0..MaxItems}

\* What Export & Upload can find selected: nothing, or a selection that is
\* exported as one item.
Selections == {<<>>} \cup {<<item>> : item \in Items}

\* The preferences the operators read.
OperatorPrefs ==
    [firebase_database_url : DatabaseUrls,
     firebase_storage_bucket : StorageBuckets,
     space_id : SpaceIds,
     max_retries : {PrefMinRetries, PrefMaxRetries}]

\* Mutant: the space id is not checked.
ConfigurationError_NoSpaceId(p) ==
    IF p.firebase_database_url = <<>> \/ p.firebase_storage_bucket = ""
    THEN "Firebase configuration incomplete. Please configure in addon preferences."
    ELSE ""

\* "# Check configuration": the error reported, or "" when there is none.
ConfigurationError(p) ==
    IF p.firebase_database_url = <<>> \/ p.firebase_storage_bucket = ""
    THEN "Firebase configuration incomplete. Please configure in addon preferences."
    ELSE IF p.space_id = <<>>
    THEN "No Space ID configured. Please set Space ID in addon preferences."
    ELSE ""

\* One invocation of client.upload_with_retry by an operator.
Invocation(i, item, p) ==
    [item |-> i, length |-> item.length, max_retries |-> p.max_retries]

\* What an execute() did: the set it returned, the last error or warning it
\* reported, the upload_with_retry calls it made, the batch's two lists, and
\* the items it handed to export_selection.
Outcome(ret, report, calls, successful, failed) ==
    [ret |-> ret, report |-> report, calls |-> calls, successful |-> successful,
     failed |-> failed, exports |-> <<>>]

Cancelled(report, calls) == Outcome("CANCELLED", report, calls, <<>>, <<>>)

\* The keys of config.EXPORT_PRESETS.
EXPORT_PRESETS == {"mobile_vr", "pc_vr", "high_quality"}

\* The items of TIPPY_OT_export_upload.export_preset.
ExportUploadPresets == {"mobile_vr", "pc_vr", "high_quality", "custom"}

\* Mutant: the custom preset is not looked up in config.EXPORT_PRESETS.
validate_for_preset_CustomKnown(selection_valid, preset_name) ==
    IF preset_name \notin EXPORT_PRESETS \cup {"custom"}
    THEN [is_valid |-> FALSE, error |-> "Unknown preset"]
    ELSE [is_valid |-> selection_valid,
          error |-> IF selection_valid THEN "" ELSE "validation error"]

\* ValidationHelper.validate_for_preset, for a selection that passes
\* validate_selection without errors (selection_valid) or does not: a preset
\* name that is not a key of config.EXPORT_PRESETS is an error of its own.
validate_for_preset(selection_valid, preset_name) ==
    IF preset_name \notin EXPORT_PRESETS
    THEN [is_valid |-> FALSE, error |-> "Unknown preset"]
    ELSE [is_valid |-> selection_valid,
          error |-> IF selection_valid THEN "" ELSE "validation error"]

\* "# Get export settings": the custom settings of the preferences, or the
\* preset's entry of config.EXPORT_PRESETS.
ExportSettings(preset) ==
    IF preset = "custom" THEN "get_custom_export_settings()" ELSE preset

\* The settings TIPPY_OT_export_upload.execute hands to export_selection, or
\* "none" when it returns before exporting.
ExportedWith(items, preset) ==
    IF items # <<>> /\ validate_for_preset(items[1].valid, preset).is_valid
    THEN ExportSettings(preset)
    ELSE "none"

\* TIPPY_OT_export_upload.execute on a selection of no item or one.
export_upload_execute(p, items, preset) ==
    IF items = <<>> THEN Cancelled("No objects selected", <<>>)
    ELSE LET item == items[1]
             call == <<Invocation(1, item, p)>>
             validation == validate_for_preset(item.valid, preset)
             exporting(out) == [out EXCEPT !.exports = <<1>>]
         IN  CASE ~validation.is_valid -> Cancelled(validation.error, <<>>)
               [] validation.is_valid /\ ~item.exported ->
                    exporting(Cancelled("Export failed", <<>>))
               [] validation.is_valid /\ item.exported /\ TooLarge(item.length) ->
                    exporting(Cancelled("File too large", <<>>))
               [] OTHER ->
                    exporting(
                    IF ConfigurationError(p) # ""
                    THEN Cancelled(ConfigurationError(p), <<>>)
                    ELSE CASE item.upload = "raise" ->
                                Cancelled("Firebase upload failed", call)
                           [] item.upload = "failure" ->
                                Cancelled("Upload failed", call)
                           [] OTHER ->
                                Outcome("FINISHED", "", call, <<1>>, <<>>))

\* The loop of TIPPY_OT_batch_export.execute from item i on; acc is what the
\* loop has done so far.
\* Mutant: a failed item never ends the batch.
StopsOnFailure_Never(skip_failed) == FALSE

\* `if not self.skip_failed: ... return {'CANCELLED'}`
StopsOnFailure(skip_failed) == ~skip_failed

RECURSIVE batch_loop(_, _, _, _, _)
batch_loop(p, items, skip_failed, i, acc) ==
    IF i > Len(items)
    THEN [acc EXCEPT !.ret = "FINISHED"]
    ELSE LET item == items[i]
             skip(report, a) ==
                 batch_loop(p, items, skip_failed, i + 1,
                            [a EXCEPT !.report = report, !.failed = Append(@, i)])
             stop(report, a) == [a EXCEPT !.ret = "CANCELLED", !.report = report]
             fail(report, a) ==
                 IF StopsOnFailure(skip_failed) THEN stop(report, a) ELSE skip(report, a)
             exporting == [acc EXCEPT !.exports = Append(@, i)]
             called == [exporting EXCEPT !.calls = Append(@, Invocation(i, item, p))]
         IN  CASE ~item.valid -> fail("validation error", acc)
               [] item.valid /\ ~item.exported -> fail("export error", exporting)
               [] item.valid /\ item.exported /\ TooLarge(item.length) ->
                    fail("File too large", exporting)
               [] OTHER ->
                    IF item.upload = "success"
                    THEN batch_loop(p, items, skip_failed, i + 1,
                                    [called EXCEPT !.successful = Append(@, i)])
                    ELSE fail("upload error", called)

\* TIPPY_OT_batch_export.execute on a list of export items.
batch_export_execute(p, items, skip_failed) ==
    IF items = <<>> THEN Cancelled("No objects to export", <<>>)
    ELSE IF ConfigurationError(p) # "" THEN Cancelled(ConfigurationError(p), <<>>)
    ELSE batch_loop(p, items, skip_failed, 1, Outcome("RUNNING", "", <<>>, <<>>, <<>>))

\* "Keep history limited to last 20 items"
HISTORY_LIMIT == 20

\* An empty URL string.
NoUrl == [bucket |-> "", payload |-> 0]

\* result['storage_url'] of a successful upload of an item: where its payload
\* (known here by its length) lies in the configured bucket.
StorageUrlOf(p, item) == [bucket |-> p.firebase_storage_bucket, payload |-> item.length]

\* The name of the i-th export item.
ItemName(i) == <<"Object", i>>

\* One line of clipboard text: a bare URL (name <<>>), or "<name>: <url>".
Line(name, url) == [name |-> name, url |-> url]

\* The UploadHistoryItem execute fills in; size stands for size_mb.
HistoryItem(p, item, preset) ==
    [hash |-> StorageUrlOf(p, item), name |-> ItemName(1), size |-> item.length,
     preset |-> preset]

\* Mutant: the results of earlier batches are kept.
batch_export_context_Append(ctx, p, items, out) ==
    IF out.ret # "FINISHED" THEN ctx
    ELSE LET n == Len(out.successful)
             item(k) == items[out.successful[k]]
         IN  [ctx EXCEPT
                 !.tippy_batch_results =
                     @ \o [k \in 1..n |-> [name |-> ItemName(out.successful[k]),
                                           hash |-> StorageUrlOf(p, item(k)),
                                           size |-> item(k).length]],
                 !.clipboard =
                     IF n > 0
                     THEN [k \in 1..n |-> Line(ItemName(out.successful[k]),
                                               StorageUrlOf(p, item(k)))]
                     ELSE @]

\* Mutant: the newest items are removed.
TrimHistory_DropNewest(history) ==
    IF Len(history) > HISTORY_LIMIT THEN SubSeq(history, 1, HISTORY_LIMIT) ELSE history

\* `while len(history) > 20: history.remove(0)`
RECURSIVE TrimHistory(_)
TrimHistory(history) ==
    IF Len(history) > HISTORY_LIMIT THEN TrimHistory(Tail(history)) ELSE history

\* What TIPPY_OT_export_upload.execute leaves in the scene and on the
\* clipboard: everything it writes there it writes after the upload has
\* succeeded.
export_upload_context(ctx, p, items, preset, auto_copy_url, out) ==
    IF out.ret # "FINISHED" THEN ctx
    ELSE LET url == StorageUrlOf(p, items[1])
         IN  [ctx EXCEPT
                 !.tippy_upload_history =
                     TrimHistory(Append(@, HistoryItem(p, items[1], preset))),
                 !.clipboard = IF auto_copy_url THEN <<Line(<<>>, url)>> ELSE @,
                 !.tippy_last_upload_hash = url]

\* What TIPPY_OT_batch_export.execute leaves in the scene and on the
\* clipboard: it writes there after its loop, on the way to FINISHED.
batch_export_context(ctx, p, items, out) ==
    IF out.ret # "FINISHED" THEN ctx
    ELSE LET n == Len(out.successful)
             item(k) == items[out.successful[k]]
         IN  [ctx EXCEPT
                 !.tippy_batch_results =
                     [k \in 1..n |-> [name |-> ItemName(out.successful[k]),
                                      hash |-> StorageUrlOf(p, item(k)),
                                      size |-> item(k).length]],
                 !.clipboard =
                     IF n > 0
                     THEN [k \in 1..n |-> Line(ItemName(out.successful[k]),
                                               StorageUrlOf(p, item(k)))]
                     ELSE @]

\* The user runs Export & Upload on the current selection.
ExportUploadExecute ==
    /\ operator = NoOperator
    /\ \E p \in OperatorPrefs, items \in Selections, preset \in ExportUploadPresets,
          auto_copy_url \in BOOLEAN :
         LET out == export_upload_execute(p, items, preset)
         IN  /\ operator' = [kind |-> "export_upload", prefs |-> p, items |-> items,
                             skip_failed |-> FALSE, preset |-> preset,
                             settings |-> ExportedWith(items, preset),
                             before |-> context, out |-> out]
             /\ context' = export_upload_context(context, p, items, preset,
                                                 auto_copy_url, out)
    /\ UNCHANGED <<uploadVars, cacheVars, network, finished, probe, callers, backend, host>>

\* The user runs Batch Export on the current selection.
BatchExportExecute ==
    /\ operator = NoOperator
    /\ \E p \in OperatorPrefs, items \in ItemLists, skip_failed \in BOOLEAN :
         LET out == batch_export_execute(p, items, skip_failed)
         IN  /\ operator' = [kind |-> "batch_export", prefs |-> p, items |-> items,
                             skip_failed |-> skip_failed, before |-> context,
                             out |-> out]
             /\ context' = batch_export_context(context, p, items, out)
    /\ UNCHANGED <<uploadVars, cacheVars, network, finished, probe, callers, backend, host>>

OperatorNext ==
    \/ ExportUploadExecute
    \/ BatchExportExecute

\* An item of an earlier upload.
OldItem(i) ==
    [hash |-> [bucket |-> "bkt", payload |-> i], name |-> <<"Earlier", i>>,
     size |-> i, preset |-> "mobile_vr"]

\* A scene that has been used before: n uploads in its history, and, if any,
\* the results of a batch and its clipboard text.
UsedContext(n) ==
    [tippy_upload_history |-> [i \in 1..n |-> OldItem(i)],
     tippy_last_upload_hash |-> IF n = 0 THEN NoUrl ELSE OldItem(n).hash,
     tippy_batch_results |->
         IF n = 0 THEN <<>>
         ELSE <<[name |-> OldItem(n).name, hash |-> OldItem(n).hash, size |-> n]>>,
     clipboard |-> IF n = 0 THEN <<>> ELSE <<Line(OldItem(n).name, OldItem(n).hash)>>]

\* The operator runs in a new scene or in one used once before.
InitOperator ==
    /\ UploadInit /\ CacheInit
    /\ network = EveryBehaviour
    /\ finished = <<>>
    /\ operator = NoOperator
    /\ probe = NoProbe
    /\ callers = <<>>
    /\ backend = EmptyBackend
    /\ context \in {UsedContext(0), UsedContext(1)}
    /\ host = IdleHost

\* One execution of one of the two export operators.
SpecOperator == InitOperator /\ [][OperatorNext]_vars

\* How many executions have been made.
Executions == IF operator.kind = "none" THEN 0 ELSE operator.nth

\* The user runs Export & Upload once more; of the execution only its number
\* and what it returned are kept.
ExportUploadAgain ==
    /\ Executions < MaxCalls
    /\ \E p \in OperatorPrefs, items \in Selections, preset \in ExportUploadPresets,
          auto_copy_url \in BOOLEAN :
         LET out == export_upload_execute(p, items, preset)
         IN  /\ operator' = [kind |-> "export_upload", nth |-> Executions + 1,
                             ret |-> out.ret]
             /\ context' = export_upload_context(context, p, items, preset,
                                                 auto_copy_url, out)
    /\ UNCHANGED <<uploadVars, cacheVars, network, finished, probe, callers, backend, host>>

HistoryNext == ExportUploadAgain

\* The scene has a history of up to HISTORY_LIMIT earlier uploads.
InitHistory ==
    /\ UploadInit /\ CacheInit
    /\ network = EveryBehaviour
    /\ finished = <<>>
    /\ operator = NoOperator
    /\ probe = NoProbe
    /\ callers = <<>>
    /\ backend = EmptyBackend
    /\ context \in {UsedContext(n) : n \in 0..HISTORY_LIMIT}
    /\ host = IdleHost

\* Up to MaxCalls executions of Export & Upload, one after the other, in a
\* scene with a history.
SpecHistory == InitHistory /\ [][HistoryNext]_vars

\* ------------------------------------------------------- GLBExporter

\* The objects argument: an empty list, or a first object and the set of all
\* objects of the list.
ExportLists ==
    {[first |-> None, all |-> {}]}
    \cup {[first |-> o, all |-> rest \cup {o}] : o \in ObjectNames, rest \in SUBSET ObjectNames}

\* The filepath argument: None, or a path of the caller's.
Filepaths == {None, "out.glb"}

\* The path tempfile.mkstemp(suffix='.glb') returns.
TempPath == "tmp.glb"

\* What a call of bpy.ops.export_scene.gltf does: it returns, or raises a
\* TypeError for its parameters, or raises something else.
GltfOutcomes == {"ok", "TypeError", "RuntimeError"}

\* GLBExporter.export_selection on host state h: the first gltf call behaves
\* as gltf, the one with minimal parameters (made after a TypeError) as
\* minimal, and os.remove succeeds or not (removed). Gives the host state on
\* exit and the exception raised ("" when the call returns).
export_selection(h, objects, filepath, gltf, minimal, removed) ==
    IF objects.all = {}
    THEN [host |-> h, raised |-> "ValueError"]
    ELSE LET is_temp == filepath = None
             path == IF is_temp THEN TempPath ELSE filepath
             exported == gltf = "ok" \/ (gltf = "TypeError" /\ minimal = "ok")
             original_selection == h.selected
             original_active == h.active
         IN  [host |->
                 [h EXCEPT
                     \* finally: deselect all, select the original selection
                     !.selected = original_selection,
                     \* the active object was set to objects[0]; it is set back
                     \* `if original_active`
                     !.active = IF original_active # None THEN original_active
                                ELSE objects.first,
                     \* mkstemp creates the temporary file; it is removed
                     \* after the file has been read
                     !.files = IF is_temp
                               THEN IF exported /\ removed THEN @ \ {path}
                                    ELSE @ \cup {path}
                               ELSE IF exported THEN @ \cup {path} ELSE @],
              raised |-> IF exported THEN "" ELSE "RuntimeError"]

\* Somebody calls GLBExporter.export_selection.
ExportSelection ==
    /\ host.call = NoExport
    /\ \E objects \in ExportLists, filepath \in Filepaths,
          gltf \in GltfOutcomes, minimal \in {"ok", "RuntimeError"},
          removed \in BOOLEAN :
         LET r == export_selection(host, objects, filepath, gltf, minimal, removed)
         IN  host' = [r.host EXCEPT !.call =
                         [objects |-> objects, filepath |-> filepath,
                          raised |-> r.raised, selected |-> host.selected,
                          active |-> host.active, files |-> host.files]]
    /\ UNCHANGED <<uploadVars, cacheVars, network, finished, operator, probe,
                   callers, backend, context>>

ExporterNext == ExportSelection

\* Any selection, with any object or none active; no temporary file.
InitExporter ==
    /\ UploadInit /\ CacheInit
    /\ network = EveryBehaviour
    /\ finished = <<>>
    /\ operator = NoOperator
    /\ probe = NoProbe
    /\ callers = <<>>
    /\ backend = EmptyBackend
    /\ context = EmptyContext
    /\ host \in [selected : SUBSET ObjectNames, active : ObjectNames \cup {None},
                  files : {{}, {"out.glb"}}, call : {NoExport}]

\* One call of GLBExporter.export_selection.
SpecExporter == InitExporter /\ [][ExporterNext]_vars

\* ------------------------------------------------ the availability probes

\* Status codes a GET can be answered with.
StatusCodes == {200, 204, 301, 400, 401, 403, 404, 429, 499, 500, 502, 503}

\* Everything a probe's GET can do.
GetResponses ==
    {Http(code, "none") : code \in StatusCodes}
    \cup {Timeout, ConnectionFailed, OtherException}

\* BanterUploader.check_server_status(server_url) when its GET behaves as
\* resp: the bool it returns, or the exception it raises. With server_url None
\* it reads config.DEFAULT_SERVER_URL, which config.py does not define, outside
\* the try block.
check_server_status(url, resp) ==
    IF url = "None"
    THEN [raised |-> "AttributeError", ret |-> FALSE, net |-> FALSE]
    ELSE IF resp.kind = "http"
    THEN [raised |-> "", ret |-> resp.code < 500, net |-> TRUE]
    ELSE [raised |-> "", ret |-> FALSE, net |-> TRUE]

\* Something calls BanterUploader.check_server_status.
CheckServerStatus ==
    /\ probe = NoProbe
    /\ \E url \in ServerUrls, resp \in GetResponses :
         LET r == check_server_status(url, resp)
         IN  probe' = [fn |-> "check_server_status", server_url |-> url,
                       client |-> FirebaseClientInit("", "", <<>>, <<>>),
                       resp |-> resp, reachable |-> r.ret, raised |-> r.raised,
                       net |-> r.net]
    /\ UNCHANGED <<uploadVars, cacheVars, network, finished, operator, laterVars>>

\* Something calls test_connection on a FirebaseClient (the panel's cache,
\* the preferences' Test Connection button).
TestConnection ==
    /\ probe = NoProbe
    /\ \E k \in ApiKeys, b \in StorageBuckets, u \in DatabaseUrls, s \in SpaceIds,
          resp \in GetResponses :
         LET c == FirebaseClientInit(k, b, u, s)
             r == test_connection(c, resp)
         IN  probe' = [fn |-> "test_connection", server_url |-> "None",
                       client |-> c, resp |-> resp, reachable |-> r.success,
                       raised |-> "", net |-> r.net]
    /\ UNCHANGED <<uploadVars, cacheVars, network, finished, operator, laterVars>>

ProbeNext ==
    \/ CheckServerStatus
    \/ TestConnection

\* One availability probe, of either kind.
SpecProbe == Init /\ [][ProbeNext]_vars

\* ------------------------------------------- concurrent calls, one backend

\* How many upload_with_retry calls run at the same time.
NumCallers == 2

Callers == 1..NumCallers

\* The client the concurrent calls share the configuration of, and the mesh
\* name they all upload under.
SharedClient == FirebaseClientInit("key", "bkt", <<"d", "/">>, <<"s">>)

SharedName == "Cube"

\* A call that has not been made yet. put_component and put_entity are what
\* the call's own PUT requests carried.
IdleCaller ==
    [pc |-> "idle", glb_data |-> "glbA", max_retries |-> 0, attempt |-> 0,
     component_id |-> 0, storage_url |-> <<>>,
     put_component |-> [id |-> 0, url |-> <<>>], put_entity |-> [id |-> 0],
     result |-> NoResult]

\* Whether the backend carries out a request answered as resp: it does when
\* it answers 200, and it may or may not have when the request timed out.
Applies(resp) ==
    IF resp.kind = "http" THEN {resp.code = 200}
    ELSE IF resp.kind = "timeout" THEN BOOLEAN
    ELSE {FALSE}

\* PUT of {"id": id, "url": url} at space/<space>/components/<id>: the last
\* write wins.
PutComponent(b, id, url) ==
    [b EXCEPT !.components = Store(@, id, [url |-> url])]

\* PUT of the entity (with its one component id) at space/<space>/Scene/<name>.
\* after_component notes whether a component record with that id had been
\* written when this write was made.
PutEntity(b, name, id) ==
    [b EXCEPT !.entities =
        Store(@, name, [component_id |-> id,
                        after_component |-> id \in DOMAIN b.components])]

\* The max_retries preference as installed.
PrefDefaultRetries == 3

\* A caller invokes upload_with_retry.
CoCall(c) ==
    /\ callers[c].pc = "idle"
    /\ \E data \in Payloads :
         callers' = [callers EXCEPT ![c] = [@ EXCEPT !.pc = "loop", !.glb_data = data,
                                                     !.max_retries = PrefDefaultRetries]]
    /\ UNCHANGED backend
    /\ UNCHANGED <<uploadVars, cacheVars, network, finished, operator, probe, context, host>>

\* One iteration of caller c up to and including step 1.
CoUploadToStorage(c) ==
    /\ callers[c].pc = "loop" /\ callers[c].attempt < callers[c].max_retries
    /\ \E id \in 1..NumIds, resp \in Responses \cap network :
         LET me == callers[c]
             r == upload_to_storage(SharedClient, me.glb_data,
                                    <<SharedName, ".glb">>, resp)
         IN  /\ \E applied \in Applies(resp) :
                  backend' = IF applied
                             THEN [backend EXCEPT !.stored =
                                      @ \cup {DownloadUrl(SharedClient.storage_bucket,
                                                          me.glb_data)}]
                             ELSE backend
             /\ callers' = [callers EXCEPT ![c] =
                    IF r.success
                    THEN [me EXCEPT !.component_id = id, !.storage_url = r.text,
                                    !.pc = "component"]
                    ELSE IF MayRetry(me.attempt, me.max_retries)
                    THEN [me EXCEPT !.attempt = @ + 1]
                    ELSE [me EXCEPT !.pc = "done", !.result = Failure(r.text)]]
    /\ UNCHANGED <<uploadVars, cacheVars, network, finished, operator, probe, context, host>>

\* Mutant: the result of create_component is not looked at.
CoCreateComponent_Unchecked(c) ==
    /\ callers[c].pc = "component"
    /\ \E resp \in Responses \cap network :
         LET me == callers[c]
         IN  /\ \E applied \in Applies(resp) :
                  backend' = IF applied
                             THEN PutComponent(backend, me.component_id, me.storage_url)
                             ELSE backend
             /\ callers' = [callers EXCEPT ![c] =
                    [me EXCEPT !.put_component = [id |-> me.component_id,
                                                  url |-> me.storage_url],
                               !.pc = "entity"]]
    /\ UNCHANGED <<uploadVars, cacheVars, network, finished, operator, probe, context, host>>

\* Step 2 of caller c.
CoCreateComponent(c) ==
    /\ callers[c].pc = "component"
    /\ \E resp \in Responses \cap network :
         LET me == callers[c]
             r == create_component(SharedClient, me.component_id, me.storage_url, resp)
             put == [me EXCEPT !.put_component = [id |-> me.component_id,
                                                  url |-> me.storage_url]]
         IN  /\ \E applied \in Applies(resp) :
                  backend' = IF applied
                             THEN PutComponent(backend, me.component_id, me.storage_url)
                             ELSE backend
             /\ callers' = [callers EXCEPT ![c] =
                    IF r.success
                    THEN [put EXCEPT !.pc = "entity"]
                    ELSE [put EXCEPT !.pc = "done", !.result = Failure(r.text)]]
    /\ UNCHANGED <<uploadVars, cacheVars, network, finished, operator, probe, context, host>>

\* Step 3 of caller c, and its return.
CoCreateEntity(c) ==
    /\ callers[c].pc = "entity"
    /\ \E resp \in Responses \cap network :
         LET me == callers[c]
             r == create_entity(SharedClient, SharedName, me.component_id, resp)
             put == [me EXCEPT !.put_entity = [id |-> me.component_id], !.pc = "done"]
         IN  /\ \E applied \in Applies(resp) :
                  backend' = IF applied
                             THEN PutEntity(backend, SharedName, me.component_id)
                             ELSE backend
             /\ callers' = [callers EXCEPT ![c] =
                    IF r.success
                    THEN [put EXCEPT !.result =
                             Success(me.storage_url, me.component_id, SharedName)]
                    ELSE [put EXCEPT !.result = Failure(r.text)]]
    /\ UNCHANGED <<uploadVars, cacheVars, network, finished, operator, probe, context, host>>

ConcurrentNext ==
    \/ \E c \in Callers : CoCall(c)
    \/ \E c \in Callers : CoUploadToStorage(c)
    \/ \E c \in Callers : CoCreateComponent(c)
    \/ \E c \in Callers : CoCreateEntity(c)

InitConcurrent ==
    /\ UploadInit /\ CacheInit
    /\ network = FlakyNetwork
    /\ finished = <<>>
    /\ operator = NoOperator
    /\ probe = NoProbe
    /\ callers = [c \in Callers |-> IdleCaller]
    /\ backend = EmptyBackend
    /\ context = EmptyContext
    /\ host = IdleHost

\* NumCallers upload_with_retry calls for one mesh name, their requests
\* interleaved in any order, against one backend.
SpecConcurrent == InitConcurrent /\ [][ConcurrentNext]_vars

\* ------------------------------------------------- properties: the uploads

Calls(op) == SelectSeq(trace, LAMBDA e : e.op = op)

Sleeps == Calls("sleep")

\* A request that timed out or could not connect.
TransportFailure(e) == e.net /\ ~e.ok /\ e.resp.kind \in {"timeout", "connerr"}

\* A request the backend answered with a status other than 200.
Rejected(e) == e.net /\ ~e.ok /\ e.resp.kind = "http"

FbDone == impl = "firebase" /\ pc = "done"

IsFailure(res) ==
    /\ res.kind = "return"
    /\ DOMAIN res.value = {"success", "error"}
    /\ res.value.success = FALSE

IsSuccess(res) ==
    /\ res.kind = "return"
    /\ DOMAIN res.value = {"success", "storage_url", "component_id", "mesh_name"}
    /\ res.value.success = TRUE

\* C1: when every storage upload of a FirebaseClient.upload_with_retry call
\* with max_retries = N >= 1 (and a str mesh name) fails with a transport
\* error, the call makes exactly N storage uploads, returns a Failure, and
\* makes no component write and no entity write.
C1_AllTransportFailures ==
    (/\ FbDone
     /\ max_retries >= 1
     /\ Formattable(mesh_name)
     /\ \A i \in 1..Len(Calls("storage")) : TransportFailure(Calls("storage")[i]))
    => /\ Len(Calls("storage")) = max_retries
       /\ IsFailure(result)
       /\ Calls("component") = <<>>
       /\ Calls("entity") = <<>>

C1_Witness ==
    /\ FbDone
    /\ max_retries = MaxRetries
    /\ Len(Calls("storage")) = MaxRetries
    /\ \A i \in 1..MaxRetries : TransportFailure(Calls("storage")[i])

\* C2: no metadata write is repeated within one call, and once a storage
\* upload of the call has succeeded (on whichever attempt) the finished call
\* has made exactly one component write and, if that write succeeded, exactly
\* one entity write.
C2_MetadataWritesOnce ==
    impl = "firebase" =>
        /\ Len(Calls("component")) <= 1
        /\ Len(Calls("entity")) <= 1
        /\ (pc = "done" /\ \E i \in 1..Len(Calls("storage")) : Calls("storage")[i].ok)
           => /\ Len(Calls("component")) = 1
              /\ Calls("component")[1].ok => Len(Calls("entity")) = 1

C2_Witness ==
    /\ FbDone
    /\ Len(Calls("storage")) = 2
    /\ ~Calls("storage")[1].ok
    /\ Calls("storage")[2].ok
    /\ Len(Calls("component")) = 1
    /\ Calls("component")[1].ok
    /\ Len(Calls("entity")) = 1
    /\ ~Calls("entity")[1].ok

\* C3: no storage upload follows a successful one; and when the uploads
\* before the first successful one (attempt k) all failed with transport
\* errors and both metadata writes succeeded, the call returns Success after
\* exactly k storage uploads, one component write and one entity write.
C3_SuccessAfterTransportFailures ==
    impl = "firebase" =>
        LET st == Calls("storage")
        IN  /\ \A i \in 1..Len(st) : st[i].ok => i = Len(st)
            /\ \A k \in 1..Len(st) :
                 (/\ pc = "done"
                  /\ st[k].ok
                  /\ \A i \in 1..(k - 1) : TransportFailure(st[i])
                  /\ \E i \in 1..Len(Calls("component")) : Calls("component")[i].ok
                  /\ \E i \in 1..Len(Calls("entity")) : Calls("entity")[i].ok)
                 => /\ IsSuccess(result)
                    /\ Len(st) = k
                    /\ k <= max_retries
                    /\ Len(Calls("component")) = 1
                    /\ Len(Calls("entity")) = 1

\* max_retries = 3, transport failures on attempts 1 and 2, success on 3.
C3_Witness ==
    /\ FbDone
    /\ max_retries = 3
    /\ Len(Calls("storage")) = 3
    /\ TransportFailure(Calls("storage")[1])
    /\ TransportFailure(Calls("storage")[2])
    /\ Calls("storage")[3].ok
    /\ IsSuccess(result)

\* Every text a failed storage upload, or an exception of the loop body, can
\* put in a Failure.
StorageFailureTexts ==
    {upload_to_storage(FirebaseClientInit(k, b, u, s), p, <<n, ".glb">>, resp).text :
        k \in ApiKeys, b \in StorageBuckets, u \in DatabaseUrls, s \in SpaceIds,
        p \in Payloads, n \in {"Cube"},
        resp \in Responses \ {Http(200, "none")}}
    \cup {<<"Upload failed: ", "cannot format mesh_name">>, <<"Maximum retries exceeded">>}

ComponentFailurePrefixes ==
    {"Failed to create component: ", "Failed to create component: HTTP "}

\* C4: when the storage upload succeeded and the backend rejects the component
\* write with an HTTP status, the call ends there: the rejected write is the
\* last operation of the call, no entity write is made, and the result is a
\* Failure whose reason is the component helper's, names the component
\* registration, and is none of the reasons a storage failure produces.
C4_ComponentRejected ==
    (/\ impl = "firebase"
     /\ Calls("component") # <<>>
     /\ Rejected(Calls("component")[1]))
    => /\ pc = "done"
       /\ IsFailure(result)
       /\ result.value.error = Calls("component")[1].text
       /\ Head(result.value.error) \in ComponentFailurePrefixes
       /\ result.value.error \notin StorageFailureTexts
       /\ trace[Len(trace)] = Calls("component")[1]
       /\ Calls("entity") = <<>>

\* The component write answered HTTP 403 after a successful upload.
C4_Witness ==
    /\ FbDone
    /\ Calls("component") # <<>>
    /\ Calls("component")[1].resp = Http(403, "none")
    /\ Calls("storage")[Len(Calls("storage"))].ok

\* C5: no exception escapes FirebaseClient.upload_with_retry: whatever the
\* requests do and whatever raises in the loop body, the call has a result
\* exactly when it has ended, and the result is a returned Success dict or a
\* returned Failure dict.
C5_NoExceptionEscapes ==
    impl = "firebase" =>
        /\ result.kind \in {"none", "return"}
        /\ (result.kind # "none") <=> (pc = "done")
        /\ pc = "done" => (IsSuccess(result) \/ IsFailure(result))

\* A call whose loop body raised on every iteration.
C5_Witness ==
    /\ FbDone
    /\ ~Formattable(mesh_name)
    /\ max_retries = 2
    /\ IsFailure(result)

\* C6 (as claimed): a storage upload the backend rejects with a non-200
\* status is not retried: the call returns the Failure carrying the backend's
\* message after that one upload and without sleeping.
C6_RejectedUploadNotRetried ==
    (/\ FbDone
     /\ max_retries >= 1
     /\ Calls("storage") # <<>>
     /\ Rejected(Calls("storage")[1]))
    => /\ Len(Calls("storage")) = 1
       /\ Sleeps = <<>>
       /\ IsFailure(result)
       /\ result.value.error = Calls("storage")[1].text

\* The trace entries that are one iteration's step 1 (a loop body that raised
\* before its helper call included).
Attempts == {"storage", "upload_glb", "raise"}

\* C10: in both upload_with_retry implementations the delays slept within one
\* call never decrease, and no delay is slept after the final failed attempt:
\* a finished call's last operation is not a sleep, and every sleep directly
\* follows a failed attempt and is directly followed by the next attempt.
C10_BackoffMonotone ==
    /\ \A i, j \in 1..Len(Sleeps) : i < j => Sleeps[i].delay <= Sleeps[j].delay
    /\ (pc = "done" /\ trace # <<>>) => trace[Len(trace)].op # "sleep"
    /\ \A i \in 1..Len(trace) :
         trace[i].op = "sleep"
         => /\ i > 1
            /\ trace[i - 1].op \in Attempts
            /\ ~trace[i - 1].ok
            /\ i < Len(trace) => trace[i + 1].op \in Attempts

\* BanterUploader: three failed attempts, two sleeps between them.
C10_Witness ==
    /\ impl = "banter"
    /\ pc = "done"
    /\ Len(Calls("upload_glb")) = 3
    /\ Len(Sleeps) = 2
    /\ Sleeps[1].delay < Sleeps[2].delay

\* ------------------------------------------ properties: availability cache

\* The configuration names a backend: an API key, and a database URL that is
\* not empty once __init__ has removed its trailing slash.
FullyConfigured ==
    /\ prefs.firebase_api_key # ""
    /\ StripTrailingSlash(prefs.firebase_database_url) # <<>>

\* The last operation was a get_firebase_status.
Got == last.op = "get"

\* An earlier get_firebase_status for the same key made a probe, and it is
\* less than _cache_duration seconds since that call.
InWindow == last.sinceProbe >= 0 /\ last.sinceProbe < CacheDuration

\* C7: of two get_firebase_status calls for one key that are less than 10
\* seconds apart with no refresh of the key between them, at most one makes a
\* probe; and with a fully configured backend a call that finds an entry aged
\* 10 seconds or more makes exactly one probe and overwrites the entry with
\* the probe's result and the call's time.
C7_OneProbePerWindow ==
    Got =>
        /\ (last.probes >= 1 /\ InWindow) => last.invalidated
        /\ (FullyConfigured /\ last.had /\ last.age >= CacheDuration)
           => /\ last.probes = 1
              /\ last.key \in DOMAIN cache
              /\ cache[last.key] = <<last.ret, last.at>>

\* An entry exactly 10 seconds old is probed again.
C7_Witness ==
    /\ Got
    /\ FullyConfigured
    /\ last.had
    /\ last.age = CacheDuration
    /\ last.sinceProbe = CacheDuration
    /\ ~last.invalidated
    /\ last.probes = 1

\* C8 (as claimed): a get_firebase_status that directly follows a refresh
\* makes a probe, whatever the configuration.
C8_RefreshThenProbe ==
    (Got /\ last.afterRefresh) => last.probes = 1

\* C8 (amended): a get_firebase_status that directly follows a refresh never
\* answers from the cache: it stores a new entry stamped with the call's time,
\* and it makes a probe exactly when the backend is fully configured.
C8_RefreshThenMiss ==
    (Got /\ last.afterRefresh)
    => /\ last.key \in DOMAIN cache
       /\ cache[last.key] = <<last.ret, last.at>>
       /\ (last.probes = 1) <=> FullyConfigured
       /\ ~FullyConfigured => (last.probes = 0 /\ ~last.ret)

\* The refresh removed an entry that was still fresh, and the call probed.
C8_Witness ==
    /\ Got
    /\ last.afterRefresh
    /\ InWindow
    /\ last.invalidated
    /\ last.probes = 1

\* C9 (as claimed): a failed probe is stored as (false, time of the call) and
\* returned as false, and every get_firebase_status for the key in the next 10
\* seconds returns false without a probe.
C9_FailureCached ==
    Got =>
        /\ (last.probes >= 1 /\ ~last.ret)
           => (last.key \in DOMAIN cache /\ cache[last.key] = <<FALSE, last.at>>)
        /\ (InWindow /\ ~last.prevOk) => (last.probes = 0 /\ ~last.ret)

\* C9 (amended): ... every get_firebase_status for the key in the next 10
\* seconds, with no refresh of the key since the failed probe, returns false
\* without a probe.
C9_FailureCachedUntilRefresh ==
    Got =>
        /\ (last.probes >= 1 /\ ~last.ret)
           => (last.key \in DOMAIN cache /\ cache[last.key] = <<FALSE, last.at>>)
        /\ (InWindow /\ ~last.prevOk /\ ~last.invalidated)
           => (last.probes = 0 /\ ~last.ret)

\* A redraw 5 seconds after a failed probe answers false from the cache.
C9_Witness ==
    /\ Got
    /\ FullyConfigured
    /\ last.sinceProbe = 5
    /\ ~last.prevOk
    /\ ~last.invalidated
    /\ last.probes = 0
    /\ ~last.ret

\* ------------------------------------------------- properties: the backoff

\* Where in the trace the step-1 attempts of the call are.
AttemptPositions == {p \in 1..Len(trace) : trace[p].op \in Attempts}

\* The position of the i-th attempt (1-based).
NthAttempt(i) ==
    CHOOSE p \in AttemptPositions :
        Cardinality({q \in AttemptPositions : q <= p}) = i

\* C11 (as claimed): the delay slept immediately before attempt i (1-based,
\* i >= 2) is 2^(i-1) seconds.
C11_DelayTwoToIMinusOne ==
    \A i \in 2..Cardinality(AttemptPositions) :
        /\ trace[NthAttempt(i) - 1].op = "sleep"
        /\ trace[NthAttempt(i) - 1].delay = 2 ^ (i - 1)

\* C11 (amended): in both implementations the delay slept immediately before
\* attempt i (1-based, i >= 2) is 2^(i-2) seconds, the loop's 0-based index of
\* the attempt that has just failed being i-2: 1 s before attempt 2, 2 s
\* before attempt 3.
C11_DelayTwoToIMinusTwo ==
    \A i \in 2..Cardinality(AttemptPositions) :
        /\ trace[NthAttempt(i) - 1].op = "sleep"
        /\ trace[NthAttempt(i) - 1].delay = 2 ^ (i - 2)

\* A third attempt was made, 2 s after the second failed.
C11_Witness ==
    /\ Cardinality(AttemptPositions) = 3
    /\ trace[NthAttempt(2) - 1].delay = 1
    /\ trace[NthAttempt(3) - 1].delay = 2

\* C12 (as claimed): no backoff delay slept by upload_with_retry exceeds 30
\* seconds, for any max_retries in 1..10.
C12_DelayAtMost30 ==
    \A i \in 1..Len(Sleeps) : Sleeps[i].delay <= 30

\* C12 (amended): the delays are bounded only by max_retries: the k-th sleep of
\* a call lasts 2^(k-1) seconds, so no delay exceeds 2^(max_retries-2) seconds
\* (256 s for max_retries = 10), a delay above 30 s is slept exactly when a
\* 7th attempt is made, and there is none for max_retries <= 6.
C12_DelayBoundedByRetries ==
    /\ \A k \in 1..Len(Sleeps) :
         /\ Sleeps[k].delay = 2 ^ (k - 1)
         /\ k <= max_retries - 1
         /\ Sleeps[k].delay <= 2 ^ (PrefMaxRetries - 2)
         /\ Sleeps[k].delay > 30 <=> k >= 6
    /\ max_retries <= 6 => \A k \in 1..Len(Sleeps) : Sleeps[k].delay <= 30

\* max_retries = 10 and nine timeouts: the last sleep lasts 256 s.
C12_Witness ==
    /\ impl = "firebase"
    /\ max_retries = PrefMaxRetries
    /\ Len(Sleeps) = 9
    /\ Sleeps[9].delay = 256

\* ----------------------------------------- properties: errors and ordering

\* C13: when all max_retries step-1 attempts of a
\* FirebaseClient.upload_with_retry call fail, the Failure it returns carries
\* the error text of the last (N-th) upload_to_storage call (or, when the loop
\* body raised instead, "Upload failed: " and the last exception's text),
\* whatever the earlier attempts failed with.
C13_LastErrorReturned ==
    (/\ FbDone
     /\ max_retries >= 1
     /\ Cardinality(AttemptPositions) = max_retries
     /\ \A p \in AttemptPositions : ~trace[p].ok)
    => LET e == trace[NthAttempt(max_retries)]
       IN  /\ IsFailure(result)
           /\ e = trace[Len(trace)]
           /\ result.value.error =
                  IF e.op = "storage" THEN e.text ELSE <<"Upload failed: ">> \o e.text

\* Three failed uploads, each with a different error; the third is reported.
C13_Witness ==
    /\ FbDone
    /\ max_retries = 3
    /\ Len(Calls("storage")) = 3
    /\ Calls("storage")[1].resp = Timeout
    /\ Calls("storage")[2].resp = ConnectionFailed
    /\ Calls("storage")[3].resp = Http(403, "none")
    /\ result.value.error = <<"Storage upload failed: HTTP ", "403">>

\* The call has reached FAILED or DONE with the operation at position p: a
\* failed component write, an entity write, or the failure of the last
\* attempt the loop allows.
Terminal(p) ==
    \/ trace[p].op = "component" /\ ~trace[p].ok
    \/ trace[p].op = "entity"
    \/ /\ trace[p].op \in {"storage", "raise"}
       /\ ~trace[p].ok
       /\ Cardinality({q \in AttemptPositions : q <= p}) >= max_retries

\* C14: within one FirebaseClient.upload_with_retry call a component write is
\* preceded by a successful storage upload of the call, an entity write is
\* preceded by the call's successful component write, and the operation with
\* which the call reaches FAILED or DONE is its last: the call has returned
\* and nothing follows it in the trace.
C14_StateMachine ==
    impl = "firebase" =>
        /\ \A p \in 1..Len(trace) :
             /\ trace[p].op = "component"
                => /\ p > 1
                   /\ trace[p - 1].op = "storage"
                   /\ trace[p - 1].ok
             /\ trace[p].op = "entity"
                => /\ p > 1
                   /\ trace[p - 1].op = "component"
                   /\ trace[p - 1].ok
             /\ Terminal(p) => (p = Len(trace) /\ pc = "done")
        /\ pc = "done" => (trace = <<>> \/ Terminal(Len(trace)))

\* UPLOAD_FAILED, retry, UPLOADED, COMPONENT_REGISTERED, DONE.
C14_Witness ==
    /\ FbDone
    /\ Len(trace) = 5
    /\ trace[1].op = "storage" /\ ~trace[1].ok
    /\ trace[2].op = "sleep"
    /\ trace[3].op = "storage" /\ trace[3].ok
    /\ trace[4].op = "component" /\ trace[4].ok
    /\ trace[5].op = "entity" /\ trace[5].ok
    /\ IsSuccess(result)

\* ------------------------------------------ properties: the export operators

Ran == operator.kind # "none"

\* Item i of the operator's input was handed to upload_with_retry.
Called(i) == \E k \in 1..Len(operator.out.calls) : operator.out.calls[k].item = i

\* C15: when the database URL, the storage bucket or the space id of the
\* preferences is empty, TIPPY_OT_export_upload.execute and
\* TIPPY_OT_batch_export.execute report an error and return CANCELLED, and
\* upload_with_retry has not been invoked.
C15_NoCallWithoutConfiguration ==
    (/\ Ran
     /\ \/ operator.prefs.firebase_database_url = <<>>
        \/ operator.prefs.firebase_storage_bucket = ""
        \/ operator.prefs.space_id = <<>>)
    => /\ operator.out.ret = "CANCELLED"
       /\ operator.out.report # ""
       /\ operator.out.calls = <<>>
       /\ operator.out.successful = <<>>

\* A batch of two exportable, uploadable items, and no space id.
C15_Witness ==
    /\ operator.kind = "batch_export"
    /\ Len(operator.items) = 2
    /\ \A i \in 1..2 : operator.items[i].upload = "success"
    /\ operator.prefs.firebase_database_url # <<>>
    /\ operator.prefs.firebase_storage_bucket # ""
    /\ operator.prefs.space_id = <<>>
    /\ operator.out.report = "No Space ID configured. Please set Space ID in addon preferences."

Exported(item) == item.valid /\ item.exported

\* The operator got as far as exporting item i: its preset is known, its
\* configuration check passed and no earlier item made it return.
Reached(i) ==
    /\ operator.kind = "export_upload" => operator.settings # "none"
    /\ operator.kind = "batch_export" => ConfigurationError(operator.prefs) = ""
    /\ \/ operator.skip_failed
       \/ \A j \in 1..(i - 1) :
             /\ Exported(operator.items[j])
             /\ ~TooLarge(operator.items[j].length)
             /\ operator.items[j].upload = "success"

\* C16: in both export operators upload_with_retry is never invoked for a
\* payload longer than MAX_FILE_SIZE_MB = 40 MB (40 * 1024 * 1024 bytes): the
\* item is reported as too large and the operator returns CANCELLED or, in a
\* batch that skips failures, puts it on the failed list. A payload of at
\* most 40 MB that the operator gets to, with the configuration complete, is
\* handed to upload_with_retry.
C16_OversizeNeverUploaded ==
    Ran =>
        /\ \A k \in 1..Len(operator.out.calls) :
             operator.out.calls[k].length <= MAX_FILE_SIZE_MB * Megabyte
        /\ \A i \in 1..Len(operator.items) :
             LET item == operator.items[i]
                 big == item.length > MAX_FILE_SIZE_MB * Megabyte
             IN  /\ (Exported(item) /\ big) => ~Called(i)
                 /\ (Exported(item) /\ big /\ Reached(i))
                    => IF operator.kind = "batch_export" /\ operator.skip_failed
                       THEN \E f \in 1..Len(operator.out.failed) :
                                operator.out.failed[f] = i
                       ELSE /\ operator.out.ret = "CANCELLED"
                            /\ operator.out.report = "File too large"
                 /\ (/\ Exported(item) /\ ~big /\ Reached(i)
                     /\ ConfigurationError(operator.prefs) = "")
                    => Called(i)

\* A batch that skips failures: the first item is one byte over 40 MB, the
\* second exactly 40 MB; only the second is uploaded.
C16_Witness ==
    /\ operator.kind = "batch_export"
    /\ operator.skip_failed
    /\ Len(operator.items) = 2
    /\ operator.items[1].length = 41943041
    /\ operator.items[2].length = 41943040
    /\ operator.out.failed = <<1>>
    /\ operator.out.successful = <<2>>
    /\ Len(operator.out.calls) = 1
    /\ operator.out.calls[1].item = 2
    /\ operator.out.ret = "FINISHED"

\* --------------------------------------- properties: the availability probes

\* The probe made its GET.
Probed == probe.fn # "none" /\ probe.net

Below500 == probe.resp.kind = "http" /\ probe.resp.code < 500

\* C17 (as claimed): both probes report the backend reachable for every HTTP
\* status below 500, and unreachable for a status >= 500 or a transport
\* exception.
C17_ReachableBelow500 ==
    Probed => (probe.reachable <=> Below500)

\* C17 (amended): check_server_status reports reachable exactly for the
\* statuses below 500, but test_connection reports success for status 200
\* only: 401, 404 and every other status fail. Both report failure for a
\* status >= 500 and for a transport exception; test_connection also does
\* without any request when the database URL or API key is empty, and
\* check_server_status called without a server URL raises instead of returning.
C17_ReachableByProbe ==
    /\ (probe.fn = "check_server_status" /\ probe.net)
       => (probe.raised = "" /\ (probe.reachable <=> Below500))
    /\ (probe.fn = "check_server_status" /\ ~probe.net)
       => (probe.server_url = "None" /\ probe.raised = "AttributeError")
    /\ probe.fn = "test_connection"
       => /\ probe.reachable
             <=> (probe.net /\ probe.resp.kind = "http" /\ probe.resp.code = 200)
          /\ probe.net
             <=> (probe.client.database_url # <<>> /\ probe.client.api_key # "")
    /\ (Probed /\ ~Below500) => ~probe.reachable

\* test_connection answered 404: not reachable, though 404 < 500.
C17_Witness ==
    /\ probe.fn = "test_connection"
    /\ probe.net
    /\ probe.resp = Http(404, "none")
    /\ ~probe.reachable

\* ------------------------------------------ properties: storage and identity

\* One storage upload that reached the backend: what was uploaded where, and
\* the download URL returned if it succeeded.
Upload(data, bucket, e) ==
    [glb_data |-> data, bucket |-> bucket, target |-> e.target, ok |-> e.ok,
     url |-> IF e.ok THEN e.text ELSE <<>>]

\* The storage uploads made so far: those kept of the calls that returned,
\* and those of the call in progress.
StorageUploads ==
    UNION {{Upload(finished[i].glb_data, finished[i].storage_bucket,
                   finished[i].stored[j]) : j \in 1..Len(finished[i].stored)} :
           i \in 1..Len(finished)}
    \cup {Upload(glb_data, client.storage_bucket, trace[p]) :
            p \in {q \in 1..Len(trace) : trace[q].op = "storage" /\ trace[q].net}}

\* C18: any two storage uploads of the same payload to the same bucket,
\* whatever the mesh names, the attempts and the calls they belong to, are
\* POSTed to the same storage location, and those that succeed return the same
\* download URL.
C18_ContentAddressed ==
    \A a, b \in StorageUploads :
        (a.glb_data = b.glb_data /\ a.bucket = b.bucket)
        => /\ a.target = b.target
           /\ (a.ok /\ b.ok) => a.url = b.url

\* The payload stored by a first call under one name is uploaded again by a
\* second call under another name, on its second attempt.
C18_Witness ==
    /\ Len(finished) = 1
    /\ finished[1].success
    /\ finished[1].glb_data = glb_data
    /\ finished[1].mesh_name = "Cube"
    /\ mesh_name = "Sphere"
    /\ Len(Calls("storage")) = 2
    /\ ~Calls("storage")[1].ok
    /\ Calls("storage")[2].ok
    /\ Calls("storage")[2].text = finished[1].storage_url

\* C19 (as claimed): two successful calls for the identical payload never
\* return the same component id.
C19_DistinctComponentIds ==
    \A i \in 1..Len(finished) :
        (/\ pc = "done"
         /\ IsSuccess(result)
         /\ finished[i].success
         /\ finished[i].glb_data = glb_data)
        => result.value.component_id # finished[i].component_id

\* ------------------------------------------------- properties: termination

\* The resources one call has used stay within what max_retries allows.
WithinBudget ==
    impl = "firebase" =>
        /\ Len(Calls("storage")) <= max_retries
        /\ Len(Sleeps) <= max_retries - 1
        /\ Len(Calls("component")) <= 1
        /\ Len(Calls("entity")) <= 1

\* C20: given that each request returns, a FirebaseClient.upload_with_retry
\* call with max_retries in 1..10 eventually returns a Success or a Failure,
\* and at no point has it made more than max_retries storage uploads, more
\* than max_retries - 1 backoff sleeps, more than one component write or more
\* than one entity write.
C20_Terminates ==
    /\ []WithinBudget
    /\ (pc = "loop") ~> (pc = "done" /\ (IsSuccess(result) \/ IsFailure(result)))

\* max_retries = 10: nine timeouts and sleeps, then all three steps succeed.
C20_Witness ==
    /\ FbDone
    /\ max_retries = PrefMaxRetries
    /\ Len(Calls("storage")) = PrefMaxRetries
    /\ Len(Sleeps) = PrefMaxRetries - 1
    /\ Len(Calls("component")) = 1
    /\ Len(Calls("entity")) = 1
    /\ IsSuccess(result)

\* ------------------------------------- properties: the legacy uploader

BtDone == impl = "banter" /\ pc = "done"

\* upload_glb raised ConnectionError or TimeoutError.
Transport(e) == ~e.ok /\ e.resp.kind \in {"timeout", "connerr"}

\* C21: in a BanterUploader.upload_with_retry call with max_retries >= 1, an
\* upload_glb call that raises ConnectionError or TimeoutError is followed by
\* a sleep and another attempt unless it was the max_retries-th, after which
\* that last error is raised; an upload_glb call that raises anything else
\* (HTTP error status, 413, invalid JSON, any other exception) ends the call
\* at once: it is the last entry of the trace, no sleep follows it, and the
\* error raised to the caller is that one.
C21_OnlyTransportRetried ==
    (impl = "banter" /\ max_retries >= 1) =>
        LET glb == Calls("upload_glb")
        IN  /\ Len(glb) <= max_retries
            /\ \A p \in 1..Len(trace) :
                 (trace[p].op = "upload_glb" /\ ~trace[p].ok /\ ~Transport(trace[p]))
                 => /\ p = Len(trace)
                    /\ pc = "done"
                    /\ result.kind = "raise"
                    /\ result.text = trace[p].text
                    /\ result.exc \notin {"ConnectionError", "TimeoutError"}
            /\ \A k \in 1..Len(glb) :
                 (Transport(glb[k]) /\ k < max_retries)
                 => /\ pc # "done" \/ Len(glb) > k
                    /\ Len(Sleeps) >= k
            /\ (pc = "done" /\ Len(glb) = max_retries /\ Transport(glb[max_retries]))
               => /\ result.kind = "raise"
                  /\ result.exc \in {"ConnectionError", "TimeoutError"}
                  /\ result.text = glb[max_retries].text
                  /\ Len(Sleeps) = max_retries - 1
                  /\ \A k \in 1..max_retries : Transport(glb[k])

\* Attempt 1 times out, attempt 2 cannot connect, attempt 3 times out: the
\* TimeoutError of attempt 3 is raised.
C21_Witness ==
    /\ BtDone
    /\ max_retries = 3
    /\ Len(Calls("upload_glb")) = 3
    /\ Calls("upload_glb")[2].resp = ConnectionFailed
    /\ Calls("upload_glb")[3].resp = Timeout
    /\ result = Raised("TimeoutError", <<"Upload timed out - file may be too large">>)

\* ------------------------------------ properties: missing configuration

\* C22 (as claimed): a FirebaseClient.upload_with_retry call on a client whose
\* storage bucket, database URL or space id is empty returns a Failure without
\* having made any request, any retry or any backoff sleep.
C22_FailsFastWithoutConfiguration ==
    (/\ FbDone
     /\ max_retries >= 1
     /\ Formattable(mesh_name)
     /\ \/ client.storage_bucket = ""
        \/ client.database_url = <<>>
        \/ client.space_id = <<>>)
    => /\ IsFailure(result)
       /\ \A p \in 1..Len(trace) : ~trace[p].net
       /\ Len(Calls("storage")) <= 1
       /\ Sleeps = <<>>

\* ---------------------------------------------- properties: concurrency

\* C23: whatever the interleaving of the calls' requests, an entity record at
\* Scene/<name> references a component id that has a component record, written
\* before the entity record was, whose url is a location a storage
\* upload was stored at; and a call that returned Success returns the
\* component id and storage URL its own component PUT carried and the
\* component id its own entity PUT carried.
C23_EntityReferencesComponent ==
    /\ \A name \in DOMAIN backend.entities :
         LET e == backend.entities[name]
         IN  /\ e.component_id \in DOMAIN backend.components
             /\ e.after_component
             /\ backend.components[e.component_id].url \in backend.stored
    /\ \A c \in DOMAIN callers :
         IsSuccess(callers[c].result)
         => /\ callers[c].result.value.component_id = callers[c].put_component.id
            /\ callers[c].result.value.component_id = callers[c].put_entity.id
            /\ callers[c].result.value.storage_url = callers[c].put_component.url
            /\ callers[c].result.value.mesh_name = SharedName

\* Two calls with different ids and different files have both returned
\* Success; the entity write of the second was the last one.
C23_Witness ==
    /\ \A c \in {1, 2} : IsSuccess(callers[c].result)
    /\ callers[1].component_id # callers[2].component_id
    /\ callers[1].storage_url # callers[2].storage_url
    /\ backend.components[callers[1].component_id].url = callers[1].storage_url
    /\ backend.entities[SharedName].component_id = callers[2].component_id

\* ------------------------------------------ properties: the cache key

\* The call was answered from a fresh entry that a probe had stored.
AnsweredFromProbe ==
    /\ Got /\ last.probes = 0
    /\ last.had /\ last.age < CacheDuration
    /\ last.key \in DOMAIN probed /\ last.key \in DOMAIN cache
    /\ ~probed[last.key].invalidated
    /\ cache[last.key][2] = probed[last.key].at

\* C24: a get_firebase_status that is answered from the cache returns a result
\* that was probed for the configuration that is current now: the project id,
\* space id, database URL and API key of the probe are those of the call.
C24_KeyIdentifiesBackend ==
    AnsweredFromProbe => probed[last.key].prefs = prefs

\* ------------------------------------------ properties: the custom preset

\* C25: an export_upload execute with export_preset 'custom' on a selection
\* without validation errors reaches the export, with the settings returned
\* by get_custom_export_settings(), and is not cancelled because of the preset.
C25_CustomPresetExports ==
    (/\ operator.kind = "export_upload"
     /\ operator.preset = "custom"
     /\ operator.items # <<>> /\ operator.items[1].valid)
    => /\ operator.settings = "get_custom_export_settings()"
       /\ operator.out.report # "Unknown preset"

\* ------------------------------------------ properties: the upload history

\* The step is an execution of Export & Upload.
ExecutedStep == Executions' = Executions + 1

\* What one execution does to the history: a CANCELLED one leaves the history
\* and the last upload as they were; a FINISHED one appends exactly one item,
\* whose URL becomes the last upload, and drops items from the front, oldest
\* first, until HISTORY_LIMIT are left.
HistoryStep ==
    LET old == context.tippy_upload_history
        new == context'.tippy_upload_history
    IN  /\ operator'.ret = "CANCELLED"
           => /\ new = old
              /\ context'.tippy_last_upload_hash = context.tippy_last_upload_hash
        /\ operator'.ret = "FINISHED"
           => /\ new # <<>>
              /\ LET appended == Append(old, new[Len(new)])
                     dropped == Len(appended) - Len(new)
                 IN  /\ dropped = IF Len(appended) > HISTORY_LIMIT
                                  THEN Len(appended) - HISTORY_LIMIT ELSE 0
                     /\ new = SubSeq(appended, dropped + 1, Len(appended))
              /\ context'.tippy_last_upload_hash = new[Len(new)].hash

\* C26: the upload history is a bounded FIFO: it never holds more than 20
\* items; each successful Export & Upload appends exactly one item and evicts
\* the oldest items first; an execution that returns CANCELLED leaves the
\* history and tippy_last_upload_hash unchanged.
C26_BoundedFifoHistory ==
    /\ [](Len(context.tippy_upload_history) <= HISTORY_LIMIT)
    /\ [][ExecutedStep => HistoryStep]_vars

\* A successful upload into a full history: the oldest item is gone, the one
\* after it is now first, and the new one is last.
C26_Witness ==
    /\ operator.kind = "export_upload" /\ Executions = 1
    /\ operator.ret = "FINISHED"
    /\ Len(context.tippy_upload_history) = HISTORY_LIMIT
    /\ context.tippy_upload_history[1] = OldItem(2)
    /\ context.tippy_upload_history[HISTORY_LIMIT].name = ItemName(1)

\* ------------------------------------------ properties: the batch operator

\* How often i occurs in a list of item numbers.
Occurrences(list, i) == Cardinality({k \in 1..Len(list) : list[k] = i})

\* The item fails validation, export, the size check or its upload.
Fails(item) ==
    \/ ~item.valid
    \/ ~item.exported
    \/ TooLarge(item.length)
    \/ item.upload # "success"

\* A batch export got to its loop: there were export items and the
\* configuration was complete.
BatchLooped(skip_failed) ==
    /\ operator.kind = "batch_export"
    /\ operator.skip_failed = skip_failed
    /\ operator.items # <<>>
    /\ ConfigurationError(operator.prefs) = ""

\* C27: a batch export with skip_failed = true that gets to its loop returns
\* FINISHED with every export item on exactly one of the lists successful and
\* failed (so their lengths add up to the number of items); an item is on
\* successful exactly if it did not fail; every item that passes validation is
\* exported and every exported item of at most 40 MB is uploaded, whatever
\* happened to the items before it; and scene.tippy_batch_results holds
\* exactly the successful items of this run, in order.
C27_SkipFailedProcessesEveryItem ==
    BatchLooped(TRUE) =>
        LET out == operator.out
            n == Len(operator.items)
        IN  /\ out.ret = "FINISHED"
            /\ Len(out.successful) + Len(out.failed) = n
            /\ \A i \in 1..n :
                 LET item == operator.items[i]
                 IN  /\ Occurrences(out.successful, i) + Occurrences(out.failed, i) = 1
                     /\ Occurrences(out.successful, i) = 1 <=> ~Fails(item)
                     /\ item.valid <=> Occurrences(out.exports, i) = 1
                     /\ (Exported(item) /\ ~TooLarge(item.length)) <=> Called(i)
            /\ context.tippy_batch_results =
                   [k \in 1..Len(out.successful) |->
                       [name |-> ItemName(out.successful[k]),
                        hash |-> StorageUrlOf(operator.prefs,
                                              operator.items[out.successful[k]]),
                        size |-> operator.items[out.successful[k]].length]]

\* In a scene with earlier batch results: the first item's upload raises, the
\* second item is uploaded; the results are now the second item alone.
C27_Witness ==
    /\ BatchLooped(TRUE)
    /\ operator.before = UsedContext(1)
    /\ Len(operator.items) = 2
    /\ operator.items[1].upload = "raise"
    /\ operator.out.failed = <<1>> /\ operator.out.successful = <<2>>
    /\ Len(context.tippy_batch_results) = 1
    /\ context.tippy_batch_results[1].name = ItemName(2)

\* The first export item that fails.
FirstFailure ==
    CHOOSE i \in 1..Len(operator.items) :
        /\ Fails(operator.items[i])
        /\ \A j \in 1..(i - 1) : ~Fails(operator.items[j])

\* C28: a batch export with skip_failed = false that gets to its loop and has
\* an item that fails validation, export, the size check or its upload returns
\* CANCELLED at the first such item: no later item is exported or uploaded,
\* and scene.tippy_batch_results and the clipboard are as they were before.
C28_FirstFailureCancels ==
    (/\ BatchLooped(FALSE)
     /\ \E i \in 1..Len(operator.items) : Fails(operator.items[i]))
    => /\ operator.out.ret = "CANCELLED"
       /\ \A j \in (FirstFailure + 1)..Len(operator.items) :
            /\ ~Called(j)
            /\ Occurrences(operator.out.exports, j) = 0
       /\ \A j \in 1..(FirstFailure - 1) : Called(j)
       /\ context.tippy_batch_results = operator.before.tippy_batch_results
       /\ context.clipboard = operator.before.clipboard

\* In a scene with earlier batch results: the first item is uploaded, the
\* second is too large; the operator returns CANCELLED and the earlier
\* results and clipboard text are still there.
C28_Witness ==
    /\ BatchLooped(FALSE)
    /\ operator.before = UsedContext(1)
    /\ Len(operator.items) = 2
    /\ ~Fails(operator.items[1])
    /\ Exported(operator.items[2]) /\ TooLarge(operator.items[2].length)
    /\ operator.out.ret = "CANCELLED"
    /\ Len(operator.out.calls) = 1
    /\ operator.out.exports = <<1, 2>>
    /\ context.tippy_batch_results = UsedContext(1).tippy_batch_results

\* ------------------------------------------ properties: GLBExporter

\* export_selection has been called and has returned or raised.
Exited == host.call # NoExport

\* C29: on exit from export_selection, whether it returned or raised, the
\* selected objects are those selected at entry and the active object is the
\* one that was active at entry.
C29_SelectionRestored ==
    Exited => /\ host.selected = host.call.selected
              /\ host.active = host.call.active

\* C30: when export_selection was called without a filepath, the temporary
\* file it created does not exist on exit, whether it returned or raised.
C30_TempFileRemoved ==
    (Exited /\ host.call.filepath = None) => TempPath \notin host.files


============================================================================
